---------------------------- MODULE Spec2Model ----------------------------
(***************************************************************************)
(* Model of the PDF outline extractor (src/process_pdfs.py).               *)
(*                                                                         *)
(* Representation.  A Python str is a sequence of Unicode code points      *)
(* (naturals), so ord(c) is the element itself.  The operators below are   *)
(* exact for texts over the alphabet                                       *)
(*   TAB LF VT FF CR, U+001C..U+001F, U+0020..U+007E, U+3000,              *)
(*   U+FF01..U+FF5E (fullwidth forms), U+2022 U+25AA U+25AB U+25E6,        *)
(*   U+3001 U+3002 U+300C..U+300F, U+3041..U+3096, U+30A1..U+30FA, U+30FC, *)
(*   U+4E00..U+9FAF.                                                       *)
(* A confidence is a Python float; every value the program can compute is *)
(* one of eight doubles, represented here in hundredths, a sum that        *)
(* rounds below the decimal value being one unit lower (0.7999999999999999 *)
(* is 79): see FloatAdd.                                                   *)
(***************************************************************************)
EXTENDS Integers, Sequences, FiniteSets, TLC

(***************************************************************************)
(* Characters                                                              *)
(***************************************************************************)
\* str.isspace(), and \s of a str pattern (restricted to the alphabet)
IsSpace(c) == c \in (9..13) \cup (28..32) \cup {12288}

IsAsciiUpper(c) == c \in 65..90
IsAsciiLower(c) == c \in 97..122
IsAsciiLetter(c) == IsAsciiUpper(c) \/ IsAsciiLower(c)
IsFullUpper(c) == c \in 65313..65338
IsFullLower(c) == c \in 65345..65370

\* \d of a str pattern: Unicode decimal digits
IsDigit(c) == c \in (48..57) \cup (65296..65305)

\* the three ranges of is_japanese_text
IsJapaneseChar(c) ==
    \/ (12352 <= c /\ c <= 12447)
    \/ (12448 <= c /\ c <= 12543)
    \/ (19968 <= c /\ c <= 40879)

\* \w of a str pattern: alphanumerics and the underscore
IsWord(c) ==
    \/ IsAsciiLetter(c) \/ IsDigit(c) \/ c = 95
    \/ IsFullUpper(c) \/ IsFullLower(c)
    \/ c \in 12353..12438
    \/ c \in (12449..12538) \cup {12540}
    \/ c \in 19968..40879

\* str.lower() of one character
LowerChar(c) == IF IsAsciiUpper(c) \/ IsFullUpper(c) THEN c + 32 ELSE c

\* unicodedata.normalize('NFKC', .) of one character of the alphabet
NFKCChar(c) ==
    IF c \in 65281..65374 THEN c - 65248
    ELSE IF c = 12288 THEN 32
    ELSE c

(***************************************************************************)
(* Strings                                                                 *)
(***************************************************************************)
lower(s) == [i \in 1..Len(s) |-> LowerChar(s[i])]

NFKC(s) == [i \in 1..Len(s) |-> NFKCChar(s[i])]

RECURSIVE lstrip(_)
lstrip(s) == IF s # <<>> /\ IsSpace(Head(s)) THEN lstrip(Tail(s)) ELSE s

RECURSIVE rstrip(_)
rstrip(s) ==
    IF s # <<>> /\ IsSpace(s[Len(s)]) THEN rstrip(SubSeq(s, 1, Len(s) - 1)) ELSE s

\* str.strip()
strip(s) == rstrip(lstrip(s))

\* s.startswith(p)
startswith(s, p) == Len(p) <= Len(s) /\ SubSeq(s, 1, Len(p)) = p

\* s.endswith(p)
endswith(s, p) == Len(p) <= Len(s) /\ SubSeq(s, Len(s) - Len(p) + 1, Len(s)) = p

\* p in s
contains(s, p) == \E i \in 0..(Len(s) - Len(p)) : SubSeq(s, i + 1, i + Len(p)) = p

\* len(s.split()): the number of maximal runs of non-whitespace
WordCount(s) ==
    Cardinality({i \in 1..Len(s) :
        ~IsSpace(s[i]) /\ (i = 1 \/ IsSpace(s[i - 1]))})

\* s.isupper(): some cased character, and no lowercase one
isupper(s) ==
    /\ \E i \in 1..Len(s) : IsAsciiUpper(s[i]) \/ IsFullUpper(s[i])
    /\ \A i \in 1..Len(s) : ~(IsAsciiLower(s[i]) \/ IsFullLower(s[i]))

\* s.split(sep) for a separator of one character
RECURSIVE Split(_, _)
Split(s, sep) ==
    IF \A i \in 1..Len(s) : s[i] # sep THEN <<s>>
    ELSE LET k == CHOOSE i \in 1..Len(s) :
                      s[i] = sep /\ \A j \in 1..(i - 1) : s[j] # sep
         IN  <<SubSeq(s, 1, k - 1)>> \o Split(SubSeq(s, k + 1, Len(s)), sep)

\* text.split('\n')
SplitLines(s) == Split(s, 10)

\* the text that precedes a position where the pattern anchor $ matches:
\* the end of the string, or just before a final newline
BeforeDollar(s) ==
    {s} \cup (IF s # <<>> /\ s[Len(s)] = 10 THEN {SubSeq(s, 1, Len(s) - 1)} ELSE {})

\* the position after the longest run of characters of class P starting at i
RECURSIVE SkipWhile(_, _, _)
SkipWhile(P(_), s, i) ==
    IF i <= Len(s) /\ P(s[i]) THEN SkipWhile(P, s, i + 1) ELSE i

\* the position before the longest run of characters of class P ending at i
RECURSIVE SkipBack(_, _, _)
SkipBack(P(_), s, i) ==
    IF i >= 1 /\ P(s[i]) THEN SkipBack(P, s, i - 1) ELSE i

\* f(lo) \o f(lo + 1) \o ... \o f(hi), by halving the range
RECURSIVE FlatMap(_, _, _)
FlatMap(f(_), lo, hi) ==
    IF lo > hi THEN <<>>
    ELSE IF lo = hi THEN f(lo)
    ELSE LET mid == (lo + hi) \div 2
         IN  FlatMap(f, lo, mid) \o FlatMap(f, mid + 1, hi)

(***************************************************************************)
(* Line Normalizer: preprocess_extracted_text                              *)
(***************************************************************************)
\* re.sub(r'(P)(Q)', r'\1 \2', s) for two disjoint character classes P, Q
InsertSpace(P(_), Q(_), s) ==
    LET f(i) == IF i < Len(s) /\ P(s[i]) /\ Q(s[i + 1]) THEN <<s[i], 32>> ELSE <<s[i]>>
    IN  FlatMap(f, 1, Len(s))

\* r'([a-z])-\s*\n\s*([a-z])' matches s at position i, whatever precedes
BrokenWordAt(s, i) ==
    LET j == SkipWhile(IsSpace, s, i + 2)
    IN  /\ i >= 1 /\ i + 3 <= Len(s)
        /\ IsAsciiLower(s[i]) /\ s[i + 1] = 45
        /\ j <= Len(s) /\ IsAsciiLower(s[j])
        /\ \E k \in (i + 2)..(j - 1) : s[k] = 10

\* the match of re.sub that starts at i: re.sub scans from left to right and
\* its matches do not overlap, so a match at i needs that the letter at i is
\* not the last letter of the match before it
RECURSIVE BrokenWordMatch(_, _)
BrokenWordMatch(s, i) ==
    /\ BrokenWordAt(s, i)
    /\ LET b == SkipBack(IsSpace, s, i - 1)
       IN  ~(b < i - 1 /\ b >= 2 /\ s[b] = 45 /\ BrokenWordMatch(s, b - 1))

\* re.sub(r'([a-z])-\s*\n\s*([a-z])', r'\1\2', s): a word broken across lines
JoinBrokenWords(s) ==
    LET f(i) ==
            IF \/ (s[i] = 45 /\ BrokenWordMatch(s, i - 1))
               \/ (IsSpace(s[i])
                     /\ LET b == SkipBack(IsSpace, s, i)
                        IN  b >= 2 /\ s[b] = 45 /\ BrokenWordMatch(s, b - 1))
            THEN <<>> ELSE <<s[i]>>
    IN  FlatMap(f, 1, Len(s))

preprocess_extracted_text(text) ==
    LET t0 == NFKC(text)
        t1 == InsertSpace(IsAsciiLower, IsAsciiUpper, t0)
        t2 == InsertSpace(IsDigit, IsAsciiLetter, t1)
        t3 == InsertSpace(IsAsciiLetter, IsDigit, t2)
    IN  JoinBrokenWords(t3)

(***************************************************************************)
(* Fragment Merger: the merge triggers                                     *)
(***************************************************************************)
\* and or of in at to for with by
TrailingWords ==
    { <<97, 110, 100>>, <<111, 114>>, <<111, 102>>, <<105, 110>>, <<97, 116>>,
      <<116, 111>>, <<102, 111, 114>>, <<119, 105, 116, 104>>, <<98, 121>> }

\* and or but however therefore thus also furthermore
ContinuationWords ==
    { <<97, 110, 100>>, <<111, 114>>, <<98, 117, 116>>,
      <<104, 111, 119, 101, 118, 101, 114>>,
      <<116, 104, 101, 114, 101, 102, 111, 114, 101>>,
      <<116, 104, 117, 115>>, <<97, 108, 115, 111>>,
      <<102, 117, 114, 116, 104, 101, 114, 109, 111, 114, 101>> }

\* street st avenue ave road rd drive dr lane ln boulevard blvd
StreetWords ==
    { <<115, 116, 114, 101, 101, 116>>, <<115, 116>>,
      <<97, 118, 101, 110, 117, 101>>, <<97, 118, 101>>,
      <<114, 111, 97, 100>>, <<114, 100>>,
      <<100, 114, 105, 118, 101>>, <<100, 114>>,
      <<108, 97, 110, 101>>, <<108, 110>>,
      <<98, 111, 117, 108, 101, 118, 97, 114, 100>>, <<98, 108, 118, 100>> }

\* suite ste unit apt apartment
UnitWords ==
    { <<115, 117, 105, 116, 101>>, <<115, 116, 101>>, <<117, 110, 105, 116>>,
      <<97, 112, 116>>, <<97, 112, 97, 114, 116, 109, 101, 110, 116>> }

\* re.search(r'(?:w1|w2|...)$', s, re.IGNORECASE) for lowercase words
EndsWithWord(s, words) ==
    \E p \in BeforeDollar(s) : \E w \in words : endswith(lower(p), w)

\* re.search(r'[c1c2...]$', s) for a set of characters
EndsWithChar(s, chars) ==
    \E p \in BeforeDollar(s) : p # <<>> /\ p[Len(p)] \in chars

\* re.match(r'^(?:w1|w2|...)', s, re.IGNORECASE) for lowercase words
StartsWithWord(s, words) == \E w \in words : startswith(lower(s), w)

is_japanese_text(text) == \E i \in 1..Len(text) : IsJapaneseChar(text[i])

is_incomplete_line(line) ==
    \/ EndsWithChar(line, {44, 12289}) \/ EndsWithWord(line, TrailingWords)
    \/ (Len(line) < 20 /\ ~EndsWithChar(line, {46, 33, 63, 12290, 65281, 65311}))
    \/ endswith(line, <<45>>)

is_continuation_line(line) ==
    \/ (line # <<>> /\ IsAsciiLower(line[1]))
    \/ StartsWithWord(line, ContinuationWords)

should_merge_japanese_lines(line1, line2) ==
    IF ~(is_japanese_text(line1) \/ is_japanese_text(line2)) THEN FALSE
    ELSE ~EndsWithChar(line1, {12290, 65281, 65311, 12289}) /\ Len(line1) < 50

\* r'\d+\s*$'
EndsWithNumber(s) ==
    \E p \in BeforeDollar(s) :
        LET q == rstrip(p) IN q # <<>> /\ IsDigit(q[Len(q)])

\* r'[A-Za-z]+\s*$' under re.IGNORECASE
EndsWithLetters(s) ==
    \E p \in BeforeDollar(s) :
        LET q == rstrip(p) IN q # <<>> /\ IsAsciiLetter(q[Len(q)])

\* r'(?:Street|St|...|Blvd)\s*$' under re.IGNORECASE
EndsWithStreet(s) ==
    \E p \in BeforeDollar(s) : \E w \in StreetWords : endswith(lower(rstrip(p)), w)

\* r'(?:Suite|Ste|Unit|Apt|Apartment)\s*\d*\s*$' under re.IGNORECASE
EndsWithUnit(s) ==
    \E p \in BeforeDollar(s) :
        LET q == rstrip(p)
            r == rstrip(SubSeq(q, 1, SkipBack(IsDigit, q, Len(q))))
        IN  \E w \in UnitWords : endswith(lower(r), w)

should_merge_address_lines(line1, line2) ==
    \/ EndsWithNumber(line1)
    \/ EndsWithLetters(line1)
    \/ EndsWithStreet(line1)
    \/ EndsWithUnit(line1)

\* lines 126-134 of merge_fragmented_lines: the value of should_merge
should_merge_without_address(current_line, line) ==
    /\ current_line # <<>>
    /\ \/ is_incomplete_line(current_line)
       \/ is_continuation_line(line)
       \/ should_merge_japanese_lines(current_line, line)

should_merge(current_line, line) ==
    /\ current_line # <<>>
    /\ \/ is_incomplete_line(current_line)
       \/ is_continuation_line(line)
       \/ should_merge_japanese_lines(current_line, line)
       \/ should_merge_address_lines(current_line, line)

\* line 138 with a space in every case
separator_always_space(current_line, line) == <<32>>

\* line 138 of merge_fragmented_lines
separator(current_line, line) ==
    IF is_japanese_text(current_line) \/ is_japanese_text(line) THEN <<>> ELSE <<32>>


(***************************************************************************)
(* Fragment Merger: merge_fragmented_lines                                 *)
(***************************************************************************)
\* lines 117-143 with a blank line skipped: the accumulator is not flushed
MergeLineSkippingBlanks(st, raw) ==
    LET line == strip(raw)
    IN  IF line = <<>> THEN st
        ELSE IF should_merge(st.current_line, line)
        THEN [merged_lines |-> st.merged_lines,
              current_line |-> st.current_line
                                 \o separator(st.current_line, line) \o line]
        ELSE [merged_lines |-> IF st.current_line # <<>>
                               THEN Append(st.merged_lines, st.current_line)
                               ELSE st.merged_lines,
              current_line |-> line]

\* One iteration of the loop of merge_fragmented_lines (lines 117-143) on the
\* raw line `raw`, from the state st = [merged_lines, current_line].
MergeLine(st, raw) ==
    LET line == strip(raw)
    IN  IF line = <<>>
        THEN IF st.current_line # <<>>
             THEN [merged_lines |-> Append(st.merged_lines, st.current_line),
                   current_line |-> <<>>]
             ELSE st
        ELSE IF should_merge(st.current_line, line)
        THEN [merged_lines |-> st.merged_lines,
              current_line |-> st.current_line
                                 \o separator(st.current_line, line) \o line]
        ELSE [merged_lines |-> IF st.current_line # <<>>
                               THEN Append(st.merged_lines, st.current_line)
                               ELSE st.merged_lines,
              current_line |-> line]

\* lines 145-149: the last accumulator is flushed
MergeFinish(st) ==
    IF st.current_line # <<>>
    THEN Append(st.merged_lines, st.current_line)
    ELSE st.merged_lines

RECURSIVE MergeFrom(_, _, _)
MergeFrom(st, lines, i) ==
    IF i > Len(lines) THEN MergeFinish(st)
    ELSE MergeFrom(MergeLine(st, lines[i]), lines, i + 1)

merge_fragmented_lines(lines) ==
    IF lines = <<>> THEN lines
    ELSE MergeFrom([merged_lines |-> <<>>, current_line |-> <<>>], lines, 1)

(***************************************************************************)
(* Line filter and Size Synthesizer                                        *)
(***************************************************************************)
\* len(re.findall(r'\b\w\b', s)): word characters standing alone
SingleCharCount(s) ==
    Cardinality({i \in 1..Len(s) :
        /\ IsWord(s[i])
        /\ (i = 1 \/ ~IsWord(s[i - 1]))
        /\ (i = Len(s) \/ ~IsWord(s[i + 1]))})

\* lines 216-235 without the test of lines 231-233
is_valid_text_line_without_single_chars(line) ==
    IF Len(line) < 2 THEN FALSE
    ELSE IF \E p \in BeforeDollar(line) :
                \A i \in 1..Len(p) : ~IsWord(p[i]) /\ ~IsSpace(p[i])
    THEN FALSE
    ELSE IF Cardinality({line[i] : i \in 1..Len(line)} \ {32}) < 3 /\ Len(line) > 10
    THEN FALSE
    ELSE TRUE

is_valid_text_line(line) ==
    IF Len(line) < 2 THEN FALSE
    ELSE IF \E p \in BeforeDollar(line) :
                \A i \in 1..Len(p) : ~IsWord(p[i]) /\ ~IsSpace(p[i])
    THEN FALSE
    ELSE IF Cardinality({line[i] : i \in 1..Len(line)} \ {32}) < 3 /\ Len(line) > 10
    THEN FALSE
    ELSE IF 2 * SingleCharCount(line) > WordCount(line) THEN FALSE
    ELSE TRUE

\* The position after the match of r'^\d+(?:\.\d+)*' that starts at i - 1
\* digits back: the repetition (?:\.\d+)* from position i on.
RECURSIVE SkipDotNumbers(_, _)
SkipDotNumbers(s, i) ==
    IF i + 1 <= Len(s) /\ s[i] = 46 /\ IsDigit(s[i + 1])
    THEN SkipDotNumbers(s, SkipWhile(IsDigit, s, i + 1))
    ELSE i

\* The position after the (greedy) match of r'^\d+(?:\.\d+)*\.?' in s, 0 when
\* s does not begin with a digit.
NumberingEnd(s) ==
    IF s = <<>> \/ ~IsDigit(s[1]) THEN 0
    ELSE LET i == SkipDotNumbers(s, SkipWhile(IsDigit, s, 1))
         IN  IF i <= Len(s) /\ s[i] = 46 THEN i + 1 ELSE i

\* re.match(r'^\d+(?:\.\d+)*\.?\s+', s)
HasNumbering(s) ==
    LET i == NumberingEnd(s) IN i # 0 /\ i <= Len(s) /\ IsSpace(s[i])

\* len(re.findall(r'\b[A-Z][a-z]+\b', s))
TitleCaseWordCount(s) ==
    Cardinality({i \in 1..Len(s) :
        /\ IsAsciiUpper(s[i])
        /\ (i = 1 \/ ~IsWord(s[i - 1]))
        /\ LET j == SkipWhile(IsAsciiLower, s, i + 1)
           IN  j > i + 1 /\ (j > Len(s) \/ ~IsWord(s[j]))})

heading_keywords ==
    { <<105, 110, 116, 114, 111, 100, 117, 99, 116, 105, 111, 110>>,
      <<99, 111, 110, 99, 108, 117, 115, 105, 111, 110>>,
      <<115, 117, 109, 109, 97, 114, 121>>,
      <<111, 118, 101, 114, 118, 105, 101, 119>>,
      <<98, 97, 99, 107, 103, 114, 111, 117, 110, 100>>,
      <<109, 101, 116, 104, 111, 100, 111, 108, 111, 103, 121>>,
      <<114, 101, 115, 117, 108, 116, 115>>,
      <<100, 105, 115, 99, 117, 115, 115, 105, 111, 110>>,
      <<114, 101, 102, 101, 114, 101, 110, 99, 101, 115>>,
      <<97, 112, 112, 101, 110, 100, 105, 120>>,
      <<99, 104, 97, 112, 116, 101, 114>>,
      <<115, 101, 99, 116, 105, 111, 110>>,
      <<112, 97, 114, 116>>,
      <<97, 98, 115, 116, 114, 97, 99, 116>>,
      <<97, 99, 107, 110, 111, 119, 108, 101, 100, 103, 109, 101, 110, 116, 115>> }

\* Chapter Section Part Appendix
StructuralWords ==
    { <<67, 104, 97, 112, 116, 101, 114>>, <<83, 101, 99, 116, 105, 111, 110>>,
      <<80, 97, 114, 116>>, <<65, 112, 112, 101, 110, 100, 105, 120>> }

\* U+2022 U+25AA U+25AB U+25E6
Bullets == {8226, 9642, 9643, 9702}

\* re.search(r'^[<open>].*[<close>]$', s) for the CJK quotation brackets
IsQuoteWrapped(s) ==
    /\ s # <<>> /\ s[1] \in {12300, 12302}
    /\ \E p \in BeforeDollar(s) :
          /\ Len(p) >= 2 /\ p[Len(p)] \in {12301, 12303}
          /\ \A i \in 2..(Len(p) - 1) : p[i] # 10

\* len(re.findall(r'[.,;:!?]', s))
PunctuationCount(s) ==
    Cardinality({i \in 1..Len(s) : s[i] \in {46, 44, 59, 58, 33, 63}})

Bonus(cond, n) == IF cond THEN n ELSE 0

estimate_font_size_improved(text) ==
    LET n == Len(text)
        score ==
            10
            + (IF n < 20 THEN 3 ELSE IF n < 40 THEN 2 ELSE IF n < 60 THEN 1
               ELSE IF n > 200 THEN -1 ELSE 0)
            + Bonus(isupper(text) /\ n < 80, 4)
            + Bonus(HasNumbering(text), 3)
            + Bonus(10 * TitleCaseWordCount(text) >= 7 * WordCount(text), 2)
            + Bonus(\E k \in heading_keywords : contains(lower(text), k), 2)
            + Bonus(\E w \in StructuralWords : startswith(text, w), 3)
            + Bonus(n >= 2 /\ text[1] \in (Bullets \cup {45, 42}) /\ IsSpace(text[2]), 1)
            + Bonus(is_japanese_text(text)
                      /\ \E i \in 1..n : text[i] \in {31532, 31456, 31680, 38917, 30446}, 3)
            + Bonus(is_japanese_text(text) /\ IsQuoteWrapped(text), 2)
            - Bonus(n > 150, 2)
            - Bonus(n > 0 /\ 10 * PunctuationCount(text) > n, 1)
        capped == IF score < 18 THEN score ELSE 18
    IN  IF capped > 8 THEN capped ELSE 8


(***************************************************************************)
(* Title Selector: extract_title                                           *)
(***************************************************************************)
\* self.font_size_thresholds['title']
TitleThreshold == 16

\* the number of leading elements of the first page extract_title examines
TitleScanLimit == 10

\* Untitled Document
UntitledDocument ==
    <<85, 110, 116, 105, 116, 108, 101, 100, 32, 68, 111, 99, 117, 109, 101, 110, 116>>

\* page of the and
StopWords ==
    { <<112, 97, 103, 101>>, <<111, 102>>, <<116, 104, 101>>, <<97, 110, 100>> }

Prefix(s, n) == SubSeq(s, 1, IF Len(s) < n THEN Len(s) ELSE n)

\* lines 316-326 with the stop words of line 321 not skipped
RECURSIVE TitleCandidatesKeepingStopWords(_, _, _)
TitleCandidatesKeepingStopWords(elements, i, cands) ==
    IF i > Len(elements) THEN cands
    ELSE LET text == strip(elements[i].text)
             font_size == elements[i].font_size
         IN  IF Len(text) < 3
             THEN TitleCandidatesKeepingStopWords(elements, i + 1, cands)
             ELSE IF font_size >= TitleThreshold \/ Len(cands) = 0
             THEN TitleCandidatesKeepingStopWords(elements, i + 1,
                      Append(cands, [text |-> text, font_size |-> font_size]))
             ELSE TitleCandidatesKeepingStopWords(elements, i + 1, cands)

\* lines 316-326: the list title_candidates after the elements from i on,
\* starting from the list cands
RECURSIVE TitleCandidates(_, _, _)
TitleCandidates(elements, i, cands) ==
    IF i > Len(elements) THEN cands
    ELSE LET text == strip(elements[i].text)
             font_size == elements[i].font_size
         IN  IF Len(text) < 3 \/ lower(text) \in StopWords
             THEN TitleCandidates(elements, i + 1, cands)
             ELSE IF font_size >= TitleThreshold \/ Len(cands) = 0
             THEN TitleCandidates(elements, i + 1,
                                  Append(cands, [text |-> text, font_size |-> font_size]))
             ELSE TitleCandidates(elements, i + 1, cands)

\* lines 307-333 with a sort that puts the later of two candidates of one
\* font size first
extract_title_preferring_later(pages_data) ==
    IF pages_data = <<>> THEN UntitledDocument
    ELSE LET cands == TitleCandidates(
                          Prefix(pages_data[1].text_elements, TitleScanLimit), 1, <<>>)
         IN  IF cands # <<>>
             THEN LET best == CHOOSE i \in 1..Len(cands) :
                                  /\ \A j \in 1..Len(cands) :
                                        cands[j].font_size <= cands[i].font_size
                                  /\ \A j \in (i + 1)..Len(cands) :
                                        cands[j].font_size < cands[i].font_size
                  IN  cands[best].text
             ELSE UntitledDocument

extract_title(pages_data) ==
    IF pages_data = <<>> THEN UntitledDocument
    ELSE LET cands == TitleCandidates(
                          Prefix(pages_data[1].text_elements, TitleScanLimit), 1, <<>>)
         IN  IF cands # <<>>
             THEN \* a stable sort by decreasing font size, then the first entry
                  LET best == CHOOSE i \in 1..Len(cands) :
                                  /\ \A j \in 1..Len(cands) :
                                        cands[j].font_size <= cands[i].font_size
                                  /\ \A j \in 1..(i - 1) :
                                        cands[j].font_size < cands[i].font_size
                  IN  cands[best].text
             ELSE UntitledDocument

(***************************************************************************)
(* Heading Classifier                                                      *)
(***************************************************************************)
SetMax(S) == CHOOSE x \in S : \A y \in S : y <= x

\* sorted(S) of a set of numbers: reverse=True left out
RECURSIVE SortedAscending(_)
SortedAscending(S) ==
    IF S = {} THEN <<>> ELSE SortedAscending(S \ {SetMax(S)}) \o <<SetMax(S)>>

\* sorted(S, reverse=True) of a set of numbers
RECURSIVE SortedDescending(_)
SortedDescending(S) ==
    IF S = {} THEN <<>> ELSE <<SetMax(S)>> \o SortedDescending(S \ {SetMax(S)})

\* lines 377-400 with the test of line 385 passed by two distinct sizes, so
\* that the alternatives of lines 387-388 are taken
calculate_dynamic_font_thresholds_from_two(font_sizes) ==
    IF font_sizes = <<>> THEN [H1 |-> 14, H2 |-> 12, H3 |-> 11]
    ELSE LET sizes == SortedDescending({font_sizes[i] : i \in 1..Len(font_sizes)})
         IN  IF Len(sizes) >= 2
             THEN [H1 |-> sizes[1], H2 |-> sizes[2],
                   H3 |-> IF Len(sizes) > 2 THEN sizes[3] ELSE sizes[2] - 1]
             ELSE [H1 |-> sizes[1], H2 |-> sizes[1] - 1, H3 |-> sizes[1] - 2]

calculate_dynamic_font_thresholds(font_sizes) ==
    IF font_sizes = <<>> THEN [H1 |-> 14, H2 |-> 12, H3 |-> 11]
    ELSE LET sizes == SortedDescending({font_sizes[i] : i \in 1..Len(font_sizes)})
         IN  IF Len(sizes) >= 3
             THEN [H1 |-> sizes[1], H2 |-> sizes[2], H3 |-> sizes[3]]
             ELSE [H1 |-> sizes[1], H2 |-> sizes[1] - 1, H3 |-> sizes[1] - 2]

\* introduction conclusion summary abstract references
CanonicalNames ==
    { <<105, 110, 116, 114, 111, 100, 117, 99, 116, 105, 111, 110>>,
      <<99, 111, 110, 99, 108, 117, 115, 105, 111, 110>>,
      <<115, 117, 109, 109, 97, 114, 121>>,
      <<97, 98, 115, 116, 114, 97, 99, 116>>,
      <<114, 101, 102, 101, 114, 101, 110, 99, 101, 115>> }

\* background methodology results discussion
SubsectionOpeners ==
    { <<98, 97, 99, 107, 103, 114, 111, 117, 110, 100>>,
      <<109, 101, 116, 104, 111, 100, 111, 108, 111, 103, 121>>,
      <<114, 101, 115, 117, 108, 116, 115>>,
      <<100, 105, 115, 99, 117, 115, 115, 105, 111, 110>> }

\* s[i] is whitespace and the run of whitespace from i is followed by a
\* character of class P: r'\s+[P]' matched at position i
SpacesThen(P(_), s, i) ==
    /\ i <= Len(s) /\ IsSpace(s[i])
    /\ LET j == SkipWhile(IsSpace, s, i) IN j <= Len(s) /\ P(s[j])

\* the position after the digits that start at i, 0 when there is none
DigitsEnd(s, i) ==
    IF i >= 1 /\ i <= Len(s) /\ IsDigit(s[i]) THEN SkipWhile(IsDigit, s, i) ELSE 0

\* the position after '.' digits that start at i, 0 when they do not
DotDigitsEnd(s, i) ==
    IF i >= 1 /\ i <= Len(s) /\ s[i] = 46 THEN DigitsEnd(s, i + 1) ELSE 0

\* r'^(?:Chapter|CHAPTER|<U+7B2C>\d+<U+7AE0>)\s+\d+' under re.IGNORECASE
IsChapterHeading(s) ==
    \/ /\ startswith(lower(s), <<99, 104, 97, 112, 116, 101, 114>>)
       /\ SpacesThen(IsDigit, s, 8)
    \/ /\ s # <<>> /\ s[1] = 31532
       /\ LET i == DigitsEnd(s, 2)
          IN  i # 0 /\ i <= Len(s) /\ s[i] = 31456 /\ SpacesThen(IsDigit, s, i + 1)

\* r'^\d+\.\s+[A-Z]' under re.IGNORECASE
IsNumberedSection(s) ==
    LET i == DigitsEnd(s, 1)
    IN  i # 0 /\ i <= Len(s) /\ s[i] = 46 /\ SpacesThen(IsAsciiLetter, s, i + 1)

\* r'^[A-Z][A-Z\s]{10,}$' under re.IGNORECASE
IsAllCapsRun(s) ==
    \E p \in BeforeDollar(s) :
        /\ Len(p) >= 11 /\ IsAsciiLetter(p[1])
        /\ \A i \in 2..Len(p) : IsAsciiLetter(p[i]) \/ IsSpace(p[i])

\* r'^(?:INTRODUCTION|CONCLUSION|SUMMARY|ABSTRACT|REFERENCES)$' under re.IGNORECASE
IsCanonicalName(s) == \E p \in BeforeDollar(s) : lower(p) \in CanonicalNames

\* r'^\d+\.\d+\s+'
IsSubNumbered(s) ==
    LET i == DotDigitsEnd(s, DigitsEnd(s, 1))
    IN  i # 0 /\ i <= Len(s) /\ IsSpace(s[i])

\* r'^[A-Z][a-z]+(?:\s+[A-Z][a-z]+){1,3}$' under re.IGNORECASE
IsTitleCaseLine(s) ==
    \E p \in BeforeDollar(s) :
        /\ p # <<>> /\ IsAsciiLetter(p[1]) /\ IsAsciiLetter(p[Len(p)])
        /\ \A i \in 1..Len(p) : IsAsciiLetter(p[i]) \/ IsSpace(p[i])
        /\ WordCount(p) \in 2..4
        /\ \A i \in 1..Len(p) :
              (IsAsciiLetter(p[i]) /\ (i = 1 \/ IsSpace(p[i - 1])))
                  => (i < Len(p) /\ IsAsciiLetter(p[i + 1]))

\* r'^\d+\.\d+\.\d+\s+'
IsSubSubNumbered(s) ==
    LET i == DotDigitsEnd(s, DotDigitsEnd(s, DigitsEnd(s, 1)))
    IN  i # 0 /\ i <= Len(s) /\ IsSpace(s[i])

\* r'^[a-z]\)\s+' under re.IGNORECASE
IsLetteredItem(s) ==
    Len(s) >= 3 /\ IsAsciiLetter(s[1]) /\ s[2] = 41 /\ IsSpace(s[3])

\* r'^[<bullets>]\s+[A-Z]' under re.IGNORECASE
IsBulletedItem(s) == s # <<>> /\ s[1] \in Bullets /\ SpacesThen(IsAsciiLetter, s, 2)

\* the level (1, 2 or 3) of the first list of patterns one of which matches,
\* 0 for None
classify_heading_by_pattern_improved(text) ==
    IF \/ IsChapterHeading(text) \/ IsNumberedSection(text)
       \/ IsAllCapsRun(text) \/ IsCanonicalName(text)
    THEN 1
    ELSE IF \/ IsSubNumbered(text) \/ IsTitleCaseLine(text)
            \/ StartsWithWord(text, SubsectionOpeners)
    THEN 2
    ELSE IF IsSubSubNumbered(text) \/ IsLetteredItem(text) \/ IsBulletedItem(text)
    THEN 3
    ELSE 0

major_keywords ==
    { <<105, 110, 116, 114, 111, 100, 117, 99, 116, 105, 111, 110>>,
      <<98, 97, 99, 107, 103, 114, 111, 117, 110, 100>>,
      <<108, 105, 116, 101, 114, 97, 116, 117, 114, 101, 32, 114, 101, 118, 105, 101, 119>>,
      <<109, 101, 116, 104, 111, 100, 111, 108, 111, 103, 121>>,
      <<114, 101, 115, 117, 108, 116, 115>>,
      <<100, 105, 115, 99, 117, 115, 115, 105, 111, 110>>,
      <<99, 111, 110, 99, 108, 117, 115, 105, 111, 110>>,
      <<115, 117, 109, 109, 97, 114, 121>>,
      <<97, 98, 115, 116, 114, 97, 99, 116>>,
      <<114, 101, 102, 101, 114, 101, 110, 99, 101, 115>>,
      <<98, 105, 98, 108, 105, 111, 103, 114, 97, 112, 104, 121>>,
      <<97, 112, 112, 101, 110, 100, 105, 120>>,
      <<97, 99, 107, 110, 111, 119, 108, 101, 100, 103, 109, 101, 110, 116, 115>> }

minor_keywords ==
    { <<111, 118, 101, 114, 118, 105, 101, 119>>,
      <<97, 112, 112, 114, 111, 97, 99, 104>>,
      <<97, 110, 97, 108, 121, 115, 105, 115>>,
      <<102, 105, 110, 100, 105, 110, 103, 115>>,
      <<105, 109, 112, 108, 105, 99, 97, 116, 105, 111, 110, 115>>,
      <<108, 105, 109, 105, 116, 97, 116, 105, 111, 110, 115>>,
      <<102, 117, 116, 117, 114, 101, 32, 119, 111, 114, 107>>,
      <<114, 101, 108, 97, 116, 101, 100, 32, 119, 111, 114, 107>>,
      <<99, 97, 115, 101, 32, 115, 116, 117, 100, 121>> }

\* text is not empty (detect_headings passes texts of 3 characters or more)
classify_heading_by_content(text) ==
    IF \E k \in major_keywords : contains(lower(text), k) THEN 1
    ELSE IF \E k \in minor_keywords : contains(lower(text), k) THEN 2
    ELSE IF Len(text) < 50 /\ (IsAsciiUpper(text[1]) \/ IsFullUpper(text[1])) THEN 3
    ELSE 0

\* lines 407-414: the size classifier
font_level(font_size, thresholds) ==
    IF font_size >= thresholds.H1 THEN 1
    ELSE IF font_size >= thresholds.H2 THEN 2
    ELSE IF font_size >= thresholds.H3 THEN 3
    ELSE 0

\* lines 402-427 without the font classifier: pattern, then content
classify_heading_without_size(text, font_size, thresholds) ==
    IF classify_heading_by_pattern_improved(text) # 0
    THEN classify_heading_by_pattern_improved(text)
    ELSE classify_heading_by_content(text)

\* lines 402-427 with the priority font > pattern > content
classify_heading_size_first(text, font_size, thresholds) ==
    LET pattern_level == classify_heading_by_pattern_improved(text)
        content_level == classify_heading_by_content(text)
    IN  IF font_level(font_size, thresholds) # 0
        THEN font_level(font_size, thresholds)
        ELSE IF pattern_level # 0 THEN pattern_level
        ELSE IF content_level # 0 THEN content_level
        ELSE 0

classify_heading_improved(text, font_size, thresholds) ==
    LET pattern_level == classify_heading_by_pattern_improved(text)
        content_level == classify_heading_by_content(text)
    IN  IF pattern_level # 0 THEN pattern_level
        ELSE IF font_level(font_size, thresholds) # 0
        THEN font_level(font_size, thresholds)
        ELSE IF content_level # 0 THEN content_level
        ELSE 0

\* The float sum a + b of two confidences given in hundredths: the sums
\* 0.6 + 0.3, 0.7 + 0.1 and 0.7 + 0.2 round to the double below the decimal
\* sum (one unit lower here), and adding to such a double gives the decimal
\* sum again, or a value over 1.0.
FloatAdd(a, b) ==
    IF <<a, b>> \in {<<60, 30>>, <<70, 10>>, <<70, 20>>} THEN a + b - 1
    ELSE IF a \in {79, 89} THEN a + b + 1
    ELSE a + b

\* re.match(r'^\d+\.', s)
StartsWithNumberDot(s) ==
    LET i == DigitsEnd(s, 1) IN i # 0 /\ i <= Len(s) /\ s[i] = 46

calculate_heading_confidence(text, font_size, thresholds) ==
    LET c0 == 50
        c1 == IF font_size >= thresholds.H1 THEN FloatAdd(c0, 30)
              ELSE IF font_size >= thresholds.H2 THEN FloatAdd(c0, 20)
              ELSE IF font_size >= thresholds.H3 THEN FloatAdd(c0, 10)
              ELSE c0
        c2 == IF Len(text) < 30 THEN FloatAdd(c1, 20)
              ELSE IF Len(text) < 60 THEN FloatAdd(c1, 10)
              ELSE c1
        c3 == IF StartsWithNumberDot(text) THEN FloatAdd(c2, 20) ELSE c2
        c4 == IF isupper(text) /\ Len(text) < 50 THEN FloatAdd(c3, 30) ELSE c3
    IN  IF c4 > 100 THEN 100 ELSE c4


(***************************************************************************)
(* Heading text cleanup: clean_heading_text_improved                       *)
(***************************************************************************)
\* the punctuation kept by the character class of line 548
\* - . , ; : ( ) [ ] { } ' " ! ? / \ & @ # $ % ^ * + = < > | ~ `
SafePunctuation ==
    {45, 46, 44, 59, 58, 40, 41, 91, 93, 123, 125, 39, 34, 33, 63, 47, 92, 38,
     64, 35, 36, 37, 94, 42, 43, 61, 60, 62, 124, 126, 96}

\* line 548: every other character becomes a space
RemoveArtifacts(s) ==
    [i \in 1..Len(s) |->
        IF IsWord(s[i]) \/ IsSpace(s[i]) \/ s[i] \in SafePunctuation THEN s[i] ELSE 32]

\* r'^\d+\.?\s+[A-Z]': the exception of line 552 for one-level numbers only
IsSimpleNumberedHeading(s) ==
    LET i == DigitsEnd(s, 1)
        j == IF i # 0 /\ i <= Len(s) /\ s[i] = 46 THEN i + 1 ELSE i
    IN  i # 0 /\ SpacesThen(IsAsciiUpper, s, j)

\* r'^\d+(?:\.\d+)*\.?\s+[A-Z]'
IsProperNumberedHeading(s) ==
    LET i == NumberingEnd(s) IN i # 0 /\ SpacesThen(IsAsciiUpper, s, i)

\* re.sub(r'^\d+(?:\.\d+)*\.?\s*', '', s)
RemoveLeadingNumber(s) ==
    LET i == NumberingEnd(s)
    IN  IF i = 0 THEN s ELSE SubSeq(s, SkipWhile(IsSpace, s, i), Len(s))

\* re.sub(r'^[<bullets>\-\*]\s*', '', s)
RemoveBullet(s) ==
    IF s # <<>> /\ s[1] \in (Bullets \cup {45, 42})
    THEN SubSeq(s, SkipWhile(IsSpace, s, 2), Len(s))
    ELSE s

\* re.sub(r'[c]{k,}', k times c, s): runs of k or more c become k, so a c
\* that follows k of them is dropped
TruncateRuns(s, c, k) ==
    LET f(i) == IF i > k /\ \A j \in (i - k)..i : s[j] = c THEN <<>> ELSE <<s[i]>>
    IN  FlatMap(f, 1, Len(s))

\* re.sub(r'\s+', ' ', s)
CollapseSpaces(s) ==
    LET f(i) == IF ~IsSpace(s[i]) THEN <<s[i]>>
                ELSE IF i > 1 /\ IsSpace(s[i - 1]) THEN <<>> ELSE <<32>>
    IN  FlatMap(f, 1, Len(s))

IsLightPunctuation(c) == c \in {46, 44, 59, 58}

\* re.sub(r'[.,;:]+$', '', s)
RemoveTrailingPunctuation(s) ==
    IF \E p \in BeforeDollar(s) : p # <<>> /\ IsLightPunctuation(p[Len(p)])
    THEN IF IsLightPunctuation(s[Len(s)])
         THEN SubSeq(s, 1, SkipBack(IsLightPunctuation, s, Len(s)))
         ELSE SubSeq(s, 1, SkipBack(IsLightPunctuation, s, Len(s) - 1)) \o <<10>>
    ELSE s

\* re.sub(r'^[<open quotes>]|[<close quotes>]$', '', s) of a text without newline
RemoveQuotes(s) ==
    LET t == IF s # <<>> /\ s[1] \in {12300, 12302} THEN Tail(s) ELSE s
    IN  IF t # <<>> /\ t[Len(t)] \in {12301, 12303}
        THEN SubSeq(t, 1, Len(t) - 1) ELSE t

\* the shortest and the longest cleaned title (line 579)
MinTitleLen == 2
MaxTitleLen == 200

\* lines 552-557: the leading number stays if a capital letter follows it
KeepOrRemoveNumber(s) ==
    IF IsProperNumberedHeading(s) THEN s ELSE RemoveLeadingNumber(s)

\* lines 574-576
RemoveJapaneseQuotes(s) == IF is_japanese_text(s) THEN RemoveQuotes(s) ELSE s

\* lines 545-576: the text before its length is tested
CleanedText(text) ==
    RemoveJapaneseQuotes(
        RemoveTrailingPunctuation(
            strip(CollapseSpaces(
                TruncateRuns(
                    TruncateRuns(
                        RemoveBullet(KeepOrRemoveNumber(RemoveArtifacts(NFKC(text)))),
                        46, 3),
                    45, 2)))))

\* lines 579-582
CheckLength(cleaned) ==
    IF Len(cleaned) < MinTitleLen \/ Len(cleaned) > MaxTitleLen
    THEN <<>> ELSE strip(cleaned)

clean_heading_text_improved(text) ==
    IF text = <<>> THEN <<>> ELSE CheckLength(CleanedText(text))

(***************************************************************************)
(* Outline Reducer: filter_and_rank_headings_improved                      *)
(***************************************************************************)
\* more entries than this after deduplication start the confidence filter (line 606)
TooManyHeadings == 25
\* confidence 0.7, in hundredths (line 608)
HighConfidence == 70
\* the filter applies only if this many entries pass it (line 609)
MinHighConfidence == 10
\* the outline keeps this many entries (line 614)
OutlineLimit == 25

SameKey(a, b) == a.title = b.title /\ a.page = b.page

\* lines 594-600 with the comparison of line 597 dropped: the last duplicate wins
RECURSIVE DeduplicateKeepLast(_, _)
DeduplicateKeepLast(outline, seen) ==
    IF outline = <<>> THEN seen
    ELSE LET item == Head(outline)
         IN  IF \E k \in 1..Len(seen) : SameKey(seen[k], item)
             THEN DeduplicateKeepLast(Tail(outline),
                      [k \in 1..Len(seen) |->
                          IF SameKey(seen[k], item) THEN item ELSE seen[k]])
             ELSE DeduplicateKeepLast(Tail(outline), Append(seen, item))

\* lines 594-600 with >= for the > of line 597: of two duplicates of one
\* confidence the later one stays
RECURSIVE DeduplicateReplacingTies(_, _)
DeduplicateReplacingTies(outline, seen) ==
    IF outline = <<>> THEN seen
    ELSE LET item == Head(outline)
         IN  IF \E k \in 1..Len(seen) : SameKey(seen[k], item)
             THEN DeduplicateReplacingTies(Tail(outline),
                      [k \in 1..Len(seen) |->
                          IF SameKey(seen[k], item) /\ item.confidence >= seen[k].confidence
                          THEN item ELSE seen[k]])
             ELSE DeduplicateReplacingTies(Tail(outline), Append(seen, item))

\* lines 594-600: the values of the dict `seen`, in the order of insertion of
\* their keys, after the items of outline
RECURSIVE Deduplicate(_, _)
Deduplicate(outline, seen) ==
    IF outline = <<>> THEN seen
    ELSE LET item == Head(outline)
         IN  IF \E k \in 1..Len(seen) : SameKey(seen[k], item)
             THEN Deduplicate(Tail(outline),
                      [k \in 1..Len(seen) |->
                          IF SameKey(seen[k], item) /\ item.confidence > seen[k].confidence
                          THEN item ELSE seen[k]])
             ELSE Deduplicate(Tail(outline), Append(seen, item))

\* the sort key of line 603, (page, -confidence), compared as tuples
KeyLessEq(a, b) ==
    a.page < b.page \/ (a.page = b.page /\ a.confidence >= b.confidence)

\* item inserted in a sorted list after the entries whose key is not greater
InsertSorted(sorted, item) ==
    LET n == Cardinality({k \in 1..Len(sorted) : KeyLessEq(sorted[k], item)})
    IN  SubSeq(sorted, 1, n) \o <<item>> \o SubSeq(sorted, n + 1, Len(sorted))

\* list.sort of line 603: a stable sort
RECURSIVE SortOutline(_, _)
SortOutline(items, sorted) ==
    IF items = <<>> THEN sorted
    ELSE SortOutline(Tail(items), InsertSorted(sorted, Head(items)))

IsHighConfidence(item) == item.confidence > HighConfidence

\* lines 605-610 without the test of line 609
KeepHighConfidenceWithoutMinimum(filtered_outline) ==
    IF Len(filtered_outline) > TooManyHeadings
    THEN SelectSeq(filtered_outline, IsHighConfidence)
    ELSE filtered_outline

\* lines 605-610
KeepHighConfidence(filtered_outline) ==
    IF Len(filtered_outline) > TooManyHeadings
    THEN LET high_confidence == SelectSeq(filtered_outline, IsHighConfidence)
         IN  IF Len(high_confidence) >= MinHighConfidence
             THEN high_confidence ELSE filtered_outline
    ELSE filtered_outline

\* lines 615-619
OutlineEntry(item) == [title |-> item.title, level |-> item.level, page |-> item.page]

\* lines 612-621 without the slice of line 614
ProjectAll(filtered_outline) ==
    [k \in 1..Len(filtered_outline) |-> OutlineEntry(filtered_outline[k])]

\* lines 612-621
Project(filtered_outline) ==
    [k \in 1..Len(Prefix(filtered_outline, OutlineLimit)) |->
        OutlineEntry(filtered_outline[k])]

filter_and_rank_headings_improved(outline) ==
    IF outline = <<>> THEN <<>>
    ELSE Project(KeepHighConfidence(SortOutline(Deduplicate(outline, <<>>), <<>>)))

(***************************************************************************)
(* Heading Classifier: detect_headings                                     *)
(***************************************************************************)
\* s1 \o s2 \o ... for a sequence of sequences
RECURSIVE Flatten(_)
Flatten(ss) == IF ss = <<>> THEN <<>> ELSE Head(ss) \o Flatten(Tail(ss))

\* lines 341-343
font_sizes_seen(pages_data) ==
    Flatten([p \in 1..Len(pages_data) |->
        [e \in 1..Len(pages_data[p].text_elements) |->
            pages_data[p].text_elements[e].font_size]])

\* lines 355-373: the candidates (none or one) of a stripped text, given its
\* level and its cleaned text
CandidateOf(text, font_size, page_num, thresholds, heading_level, clean_text) ==
    IF Len(text) < 3 THEN <<>>
    ELSE IF heading_level # 0 /\ clean_text # <<>> /\ Len(clean_text) > 2
    THEN << [title |-> clean_text,
             level |-> heading_level,
             page |-> page_num,
             confidence |-> calculate_heading_confidence(text, font_size, thresholds),
             original_text |-> text] >>
    ELSE <<>>

\* lines 352-373 with the pages counted from 1
ElementCandidatesOneBased(element, page_num, thresholds) ==
    LET text == strip(element.text)
    IN  CandidateOf(text, element.font_size, page_num + 1, thresholds,
                    classify_heading_improved(text, element.font_size, thresholds),
                    clean_heading_text_improved(text))

\* lines 352-373: the candidates (none or one) of one text element
ElementCandidates(element, page_num, thresholds) ==
    LET text == strip(element.text)
    IN  CandidateOf(text, element.font_size, page_num, thresholds,
                    classify_heading_improved(text, element.font_size, thresholds),
                    clean_heading_text_improved(text))

\* lines 347-373: the list `outline` before it is filtered and ranked, for
\* given thresholds
CandidatesWith(pages_data, thresholds) ==
    Flatten([p \in 1..Len(pages_data) |->
        Flatten([e \in 1..Len(pages_data[p].text_elements) |->
            ElementCandidates(pages_data[p].text_elements[e],
                              pages_data[p].page_num, thresholds)])])

\* lines 337-373: the list `outline` before it is filtered and ranked
heading_candidates(pages_data) ==
    CandidatesWith(pages_data,
                   calculate_dynamic_font_thresholds(font_sizes_seen(pages_data)))

detect_headings(pages_data) ==
    filter_and_rank_headings_improved(heading_candidates(pages_data))


(***************************************************************************)
(* Text extraction: fallback_text_extraction, one page at a time           *)
(***************************************************************************)
\* lines 60-64 with the lines of the pages before page_num kept in the list
RECURSIVE PageLinesAccumulated(_, _)
PageLinesAccumulated(doc, page_num) ==
    (IF page_num = 0 THEN <<>> ELSE PageLinesAccumulated(doc, page_num - 1))
        \o SplitLines(preprocess_extracted_text(doc.pages[page_num + 1].text))

\* lines 60-64: the lines of page number page_num (0-based) of the document
PageLines(doc, page_num) ==
    SplitLines(preprocess_extracted_text(doc.pages[page_num + 1].text))

\* lines 69-81: the text elements made from the merged lines of a page
\* (the constant fields font, flags and bbox are left out)
TextElements(merged) ==
    LET f(k) == LET line == strip(merged[k])
                IN  IF line # <<>> /\ is_valid_text_line(line)
                    THEN << [text |-> line,
                             font_size |-> estimate_font_size_improved(line)] >>
                    ELSE <<>>
    IN  FlatMap(f, 1, Len(merged))

\* lines 59-86: the entry of pages_data for one page
PageData(doc, page_num) ==
    [page_num |-> page_num,
     text_elements |-> TextElements(merge_fragmented_lines(PageLines(doc, page_num)))]

\* A document of the page source: readable is FALSE when opening it raises,
\* pages[k].raises is TRUE when extract_text raises on page k.
fallback_text_extraction(doc) ==
    IF ~doc.readable \/ \E k \in 1..Len(doc.pages) : doc.pages[k].raises
    THEN <<>>
    ELSE [k \in 1..Len(doc.pages) |-> PageData(doc, k - 1)]

(***************************************************************************)
(* process_single_pdf                                                      *)
(***************************************************************************)
\* Error: Could not process PDF
ErrorCouldNotProcess ==
    <<69, 114, 114, 111, 114, 58, 32, 67, 111, 117, 108, 100, 32, 110, 111,
      116, 32, 112, 114, 111, 99, 101, 115, 115, 32, 80, 68, 70>>

\* lines 758-761.  A summary is a record with the field keys, the set of keys
\* of the dict, and a field for each key whose value is modelled.
SentinelSummary ==
    [keys |-> {"title", "outline"}, title |-> ErrorCouldNotProcess, outline |-> <<>>]

RECURSIVE Sum(_, _, _)
Sum(f(_), lo, hi) == IF lo > hi THEN 0 ELSE f(lo) + Sum(f, lo + 1, hi)

\* extract_document_metadata
extract_document_metadata(pages_data) ==
    LET words(p) == LET w(e) == WordCount(pages_data[p].text_elements[e].text)
                    IN  Sum(w, 1, Len(pages_data[p].text_elements))
    IN  [total_pages |-> Len(pages_data),
         estimated_word_count |-> Sum(words, 1, Len(pages_data)),
         language |-> "en"]

\* lines 774-786.  The values of key_phrases and important_fields come from
\* the auxiliary entity extractor, which is not modelled: has_fields tells
\* whether it found a field, and so whether the key important_fields is set.
FullSummary(title, outline, pages_data, has_fields) ==
    [keys |-> {"title", "outline", "metadata", "key_phrases"}
                \cup (IF has_fields THEN {"important_fields"} ELSE {}),
     title |-> title,
     outline |-> outline,
     metadata |-> extract_document_metadata(pages_data)]

process_single_pdf(doc, has_fields) ==
    LET pages_data == fallback_text_extraction(doc)
    IN  IF pages_data = <<>> THEN SentinelSummary
        ELSE FullSummary(extract_title(pages_data), detect_headings(pages_data),
                         pages_data, has_fields)


(***************************************************************************)
(* The documents of the model                                              *)
(***************************************************************************)
\* Contact us at
ContactUsAt ==
    <<67, 111, 110, 116, 97, 99, 116, 32, 117, 115, 32, 97, 116>>

\* info@example.com for details.
InfoForDetails ==
    <<105, 110, 102, 111, 64, 101, 120, 97, 109, 112, 108, 101, 46, 99, 111,
      109, 32, 102, 111, 114, 32, 100, 101, 116, 97, 105, 108, 115, 46>>

\* This is a long line of words
LongLineOfWords ==
    <<84, 104, 105, 115, 32, 105, 115, 32, 97, 32, 108, 111, 110, 103, 32,
      108, 105, 110, 101, 32, 111, 102, 32, 119, 111, 114, 100, 115>>

\* U+65E5 U+672C U+8A9E U+306E U+7AE0, five Japanese characters
JapaneseLine == <<26085, 26412, 35486, 12398, 31456>>

\* Dear Sir,
DearSir == <<68, 101, 97, 114, 32, 83, 105, 114, 44>>

\* INTRODUCTION, CONCLUSION, SUMMARY, ABSTRACT, REFERENCES
Introduction == <<73, 78, 84, 82, 79, 68, 85, 67, 84, 73, 79, 78>>
Conclusion == <<67, 79, 78, 67, 76, 85, 83, 73, 79, 78>>
Summary == <<83, 85, 77, 77, 65, 82, 89>>
Abstract == <<65, 66, 83, 84, 82, 65, 67, 84>>
References == <<82, 69, 70, 69, 82, 69, 78, 67, 69, 83>>

\* The lines that multi-line pages are made of; the last one is a blank line.
\* Between them every merge trigger holds alone for some pair, and none for
\* some pair.
MergeVocab ==
    <<ContactUsAt, InfoForDetails, LongLineOfWords, JapaneseLine, DearSir, <<>>>>

\* the largest number of lines and page breaks of a multi-line document
MaxTokens == 3

\* a token is the index of a line of MergeVocab, or 0 for a page break
TokenSeqs == UNION {[1..n -> 0..Len(MergeVocab)] : n \in 0..MaxTokens}

\* '\n'.join(ls)
JoinLines(ls) ==
    LET f(k) == IF k = 1 THEN ls[k] ELSE <<10>> \o ls[k]
    IN  FlatMap(f, 1, Len(ls))

GoodPage(text) == [raises |-> FALSE, text |-> text]
RaisingPage == [raises |-> TRUE, text |-> <<>>]

\* the pages written by a sequence of tokens
PagesOf(ts) ==
    LET pages == Split(ts, 0)
    IN  [p \in 1..Len(pages) |->
            GoodPage(JoinLines([k \in 1..Len(pages[p]) |-> MergeVocab[pages[p][k]]]))]

\* the lines of the documents that have one page with one line
SingleLines == {Introduction, Conclusion, Summary, Abstract, References}

Unreadable == [readable |-> FALSE, pages |-> <<>>]

Documents ==
    {Unreadable, [readable |-> TRUE, pages |-> <<>>]}
    \cup {[readable |-> TRUE, pages |-> PagesOf(ts)] : ts \in TokenSeqs}
    \cup {[readable |-> TRUE, pages |-> <<GoodPage(l)>>] : l \in SingleLines}
    \cup {[readable |-> TRUE, pages |-> <<RaisingPage>>],
          [readable |-> TRUE, pages |-> <<GoodPage(Introduction), RaisingPage>>],
          [readable |-> TRUE, pages |-> <<RaisingPage, GoodPage(Introduction)>>]}

(***************************************************************************)
(* State                                                                   *)
(***************************************************************************)
VARIABLES
    pc,            \* the position of the program
    pdf,           \* the document process_single_pdf is working on
    page_num,      \* fallback_text_extraction: the page of the loop of line 59
    lines,         \* merge_fragmented_lines: its argument
    i,             \* merge_fragmented_lines: the index of the loop of line 117
    merged_lines,  \* merge_fragmented_lines: the list merged_lines
    current_line,  \* merge_fragmented_lines: the accumulator
    pages_data,    \* the list pages_data
    calls,         \* the stages process_single_pdf has called so far
    title,         \* process_single_pdf: title
    candidates,    \* detect_headings: the list `outline` before it is reduced
    outline,       \* the reduced outline
    result,        \* the value process_single_pdf returns
    pdf_files,     \* process_pdfs: the batch
    file_idx,      \* process_pdfs: the index of the loop of line 809
    output,        \* process_pdfs: the summaries written, by index of file
    font_sizes,    \* calculate_dynamic_font_thresholds: its argument
    thresholds,    \* the thresholds it returns
    text,          \* the classifier: the text of a line
    font_size,     \* the classifier: its emphasis score
    level,         \* the classifier: classify_heading_improved's result
    clean_text,    \* the classifier: clean_heading_text_improved's result
    confidence     \* the classifier: calculate_heading_confidence's result

vars ==
    <<pc, pdf, page_num, lines, i, merged_lines, current_line, pages_data, calls,
      title, candidates, outline, result, pdf_files, file_idx, output,
      font_sizes, thresholds, text, font_size, level, clean_text, confidence>>

extraction_vars == <<page_num, lines, i, merged_lines, current_line, pages_data>>
summary_vars == <<calls, title, candidates, outline, result>>
batch_vars == <<pdf_files, file_idx, output>>
threshold_vars == <<font_sizes, thresholds>>
classifier_vars == <<text, font_size, level, clean_text, confidence>>

NoSummary == [keys |-> {}]
NoThresholds == [H1 |-> 0, H2 |-> 0, H3 |-> 0]

\* the values of the variables a specification does not use
IdleExtraction ==
    /\ page_num = 0 /\ lines = <<>> /\ i = 0
    /\ merged_lines = <<>> /\ current_line = <<>> /\ pages_data = <<>>
IdleSummary ==
    /\ calls = {} /\ title = <<>> /\ candidates = <<>> /\ outline = <<>>
    /\ result = NoSummary
IdleBatch == pdf_files = <<>> /\ file_idx = 0 /\ output = <<>>
IdleThresholds == font_sizes = <<>> /\ thresholds = NoThresholds
IdleClassifier ==
    /\ text = <<>> /\ font_size = 0 /\ level = 0 /\ clean_text = <<>>
    /\ confidence = 0

(***************************************************************************)
(* process_single_pdf on one document, step by step                        *)
(***************************************************************************)
Init ==
    /\ pdf \in Documents
    /\ pc = "open"
    /\ IdleExtraction /\ IdleSummary /\ IdleBatch /\ IdleThresholds /\ IdleClassifier

\* lines 55-57: the document opens
Open ==
    /\ pc = "open" /\ pdf.readable
    /\ pc' = "page"
    /\ page_num' = 0
    /\ pages_data' = <<>>
    /\ calls' = calls \cup {"extract_text_with_formatting"}
    /\ UNCHANGED <<pdf, lines, i, merged_lines, current_line, title, candidates,
                   outline, result, batch_vars, threshold_vars, classifier_vars>>

\* lines 55-56 raise, lines 90-92 return []
OpenRaises ==
    /\ pc = "open" /\ ~pdf.readable
    /\ pc' = "extracted"
    /\ pages_data' = <<>>
    /\ calls' = calls \cup {"extract_text_with_formatting"}
    /\ UNCHANGED <<pdf, page_num, lines, i, merged_lines, current_line, title,
                   candidates, outline, result, batch_vars, threshold_vars,
                   classifier_vars>>

\* lines 59-67 and 111-115: the text of the next page is extracted,
\* preprocessed and split, and merge_fragmented_lines starts on its lines
ExtractPage ==
    /\ pc = "page" /\ page_num < Len(pdf.pages)
    /\ ~pdf.pages[page_num + 1].raises
    /\ lines' = PageLines(pdf, page_num)
    /\ merged_lines' = <<>>
    /\ current_line' = <<>>
    /\ i' = 1
    /\ pc' = "merge"
    /\ UNCHANGED <<pdf, page_num, pages_data, summary_vars, batch_vars,
                   threshold_vars, classifier_vars>>

\* line 60 raises and the handler of lines 90-92 returns the pages read so far
ExtractPageRaisesKeepingPages ==
    /\ pc = "page" /\ page_num < Len(pdf.pages)
    /\ pdf.pages[page_num + 1].raises
    /\ pc' = "extracted"
    /\ UNCHANGED <<pdf, extraction_vars, summary_vars, batch_vars, threshold_vars,
                   classifier_vars>>

\* line 60 raises, lines 90-92 return []: the pages read so far are dropped
ExtractPageRaises ==
    /\ pc = "page" /\ page_num < Len(pdf.pages)
    /\ pdf.pages[page_num + 1].raises
    /\ pages_data' = <<>>
    /\ pc' = "extracted"
    /\ UNCHANGED <<pdf, page_num, lines, i, merged_lines, current_line,
                   summary_vars, batch_vars, threshold_vars, classifier_vars>>

\* lines 117-143: one iteration of the loop of merge_fragmented_lines
MergeStep ==
    /\ pc = "merge" /\ i <= Len(lines)
    /\ LET st == MergeLine([merged_lines |-> merged_lines,
                            current_line |-> current_line], lines[i])
       IN  /\ merged_lines' = st.merged_lines
           /\ current_line' = st.current_line
    /\ i' = i + 1
    /\ UNCHANGED <<pc, pdf, page_num, lines, pages_data, summary_vars, batch_vars,
                   threshold_vars, classifier_vars>>

\* lines 145-149 and 69-86: the last accumulator is flushed, the merged
\* lines become the text elements of the page
FinishPage ==
    /\ pc = "merge" /\ i > Len(lines)
    /\ pages_data' = Append(pages_data,
          [page_num |-> page_num,
           text_elements |-> TextElements(
               MergeFinish([merged_lines |-> merged_lines,
                            current_line |-> current_line]))])
    /\ page_num' = page_num + 1
    /\ lines' = <<>> /\ i' = 0 /\ merged_lines' = <<>> /\ current_line' = <<>>
    /\ pc' = "page"
    /\ UNCHANGED <<pdf, summary_vars, batch_vars, threshold_vars, classifier_vars>>

\* line 88: every page is read
ExtractionDone ==
    /\ pc = "page" /\ page_num = Len(pdf.pages)
    /\ pc' = "extracted"
    /\ UNCHANGED <<pdf, extraction_vars, summary_vars, batch_vars, threshold_vars,
                   classifier_vars>>

\* lines 757-761
ReturnSentinel ==
    /\ pc = "extracted" /\ pages_data = <<>>
    /\ result' = SentinelSummary
    /\ pc' = "done"
    /\ UNCHANGED <<pdf, extraction_vars, calls, title, candidates, outline,
                   batch_vars, threshold_vars, classifier_vars>>

\* line 764
ExtractTitle ==
    /\ pc = "extracted" /\ pages_data # <<>>
    /\ title' = extract_title(pages_data)
    /\ calls' = calls \cup {"extract_title"}
    /\ pc' = "title"
    /\ UNCHANGED <<pdf, extraction_vars, candidates, outline, result, batch_vars,
                   threshold_vars, classifier_vars>>

\* line 767 with the list font_sizes_seen of line 338 kept by the instance
\* from one call to the next
DetectHeadingsAccumulatingSizes ==
    /\ pc = "title"
    /\ font_sizes' = font_sizes \o font_sizes_seen(pages_data)
    /\ thresholds' = calculate_dynamic_font_thresholds(font_sizes')
    /\ candidates' = CandidatesWith(pages_data, thresholds')
    /\ outline' = filter_and_rank_headings_improved(candidates')
    /\ calls' = calls \cup {"detect_headings"}
    /\ pc' = "headings"
    /\ UNCHANGED <<pdf, extraction_vars, title, result, batch_vars, classifier_vars>>

\* line 767
DetectHeadings ==
    /\ pc = "title"
    /\ thresholds' = calculate_dynamic_font_thresholds(font_sizes_seen(pages_data))
    /\ candidates' = CandidatesWith(pages_data, thresholds')
    /\ outline' = filter_and_rank_headings_improved(candidates')
    /\ calls' = calls \cup {"detect_headings"}
    /\ pc' = "headings"
    /\ UNCHANGED <<pdf, extraction_vars, title, result, batch_vars, font_sizes,
                   classifier_vars>>

\* lines 769-786
BuildResult ==
    /\ pc = "headings"
    /\ \E has_fields \in BOOLEAN :
          result' = FullSummary(title, outline, pages_data, has_fields)
    /\ calls' = calls \cup {"extract_document_metadata", "extract_important_fields",
                            "extract_key_phrases"}
    /\ pc' = "done"
    /\ UNCHANGED <<pdf, extraction_vars, title, candidates, outline, batch_vars,
                   threshold_vars, classifier_vars>>

Next ==
    \/ Open \/ OpenRaises \/ ExtractPage \/ ExtractPageRaises \/ MergeStep
    \/ FinishPage \/ ExtractionDone \/ ReturnSentinel \/ ExtractTitle
    \/ DetectHeadings \/ BuildResult

Spec == Init /\ [][Next]_vars

\* the steps of this specification compute what the functions compute
StepsAgree ==
    /\ pc \in {"extracted", "title", "headings", "done"}
          => pages_data = fallback_text_extraction(pdf)
    /\ pc = "done" => \E has_fields \in BOOLEAN : result = process_single_pdf(pdf, has_fields)
\* the page source yields no page, or fails
SourceFails(doc) ==
    \/ ~doc.readable
    \/ doc.pages = <<>>
    \/ \E k \in 1..Len(doc.pages) : doc.pages[k].raises

\* C3: when the page source yields zero pages or fails, process_single_pdf
\* returns exactly the title "Error: Could not process PDF" and an empty
\* outline, with no other key, and neither extract_title nor detect_headings
\* is called.
C3_SentinelWhenSourceFails ==
    (pc = "done" /\ SourceFails(pdf)) =>
        /\ result.keys = {"title", "outline"}
        /\ result.title = ErrorCouldNotProcess
        /\ result.outline = <<>>
        /\ calls = {"extract_text_with_formatting"}
        /\ title = <<>> /\ candidates = <<>> /\ outline = <<>>

\* C3, witness: the source failed on its second page, after a first page
\* that has a heading, and the sentinel was returned.
C3_Witness ==
    /\ pc = "done"
    /\ pdf.readable /\ Len(pdf.pages) = 2
    /\ ~pdf.pages[1].raises /\ pdf.pages[1].text = Introduction
    /\ pdf.pages[2].raises
    /\ result = SentinelSummary

\* text without its whitespace
Squeeze(s) == LET NotSpace(c) == ~IsSpace(c) IN SelectSeq(s, NotSpace)

\* the lines read from page number p (0-based) of the document: lines 60-64
NormalizedLines(p) == SplitLines(preprocess_extracted_text(pdf.pages[p + 1].text))

\* t is made of the characters of consecutive lines among the first n of ls,
\* in their order, whitespace apart
MadeOfLines(t, ls, n) ==
    \E a \in 1..n : \E b \in a..n :
        LET f(k) == ls[k] IN Squeeze(t) = Squeeze(FlatMap(f, a, b))

\* C5: merging never crosses a page boundary.  Every logical line, finished
\* or in the making, is made of consecutive raw lines of one page only and is
\* filed under the number of that page, and the accumulator is empty when the
\* merging of a page starts.
C5_PageIsolation ==
    /\ \A p \in 1..Len(pages_data) :
          /\ pages_data[p].page_num = p - 1
          /\ \A e \in 1..Len(pages_data[p].text_elements) :
                MadeOfLines(pages_data[p].text_elements[e].text,
                            NormalizedLines(p - 1), Len(NormalizedLines(p - 1)))
    /\ pc = "merge" =>
          /\ i = 1 => (current_line = <<>> /\ merged_lines = <<>>)
          /\ current_line # <<>> =>
                MadeOfLines(current_line, NormalizedLines(page_num), i - 1)
          /\ \A k \in 1..Len(merged_lines) :
                MadeOfLines(merged_lines[k], NormalizedLines(page_num), i - 1)

\* C5, witness: a page ends with "Contact us at", which would be joined to a
\* line that followed it on the page; the next page starts with another line,
\* and the two are logical lines of their own, each on its page.
C5_Witness ==
    /\ pc = "extracted"
    /\ Len(pages_data) = 2
    /\ LET first == pages_data[1].text_elements
           second == pages_data[2].text_elements
       IN  /\ first # <<>> /\ first[Len(first)].text = ContactUsAt
           /\ second # <<>> /\ second[1].text = InfoForDetails

\* one of the four merge triggers holds
AnyTrigger(accumulator, line) ==
    \/ is_incomplete_line(accumulator)
    \/ is_continuation_line(line)
    \/ should_merge_japanese_lines(accumulator, line)
    \/ should_merge_address_lines(accumulator, line)

\* the accumulator ends with one of and, or, of, in, at, to, for, with, by
EndsInPreposition(accumulator) ==
    \E w \in TrailingWords : endswith(lower(accumulator), w)

\* C6: a step of merge_fragmented_lines on a non-blank line with a non-empty
\* accumulator appends the line to the accumulator if one of the four merge
\* triggers holds, and otherwise flushes the accumulator and starts a new one
\* with the line; an accumulator that ends in a preposition is always joined
\* with the line.
C6_MergeIffTrigger ==
    [][(pc = "merge" /\ i <= Len(lines) /\ strip(lines[i]) # <<>>
            /\ current_line # <<>>) =>
          LET line == strip(lines[i])
              joined == {current_line \o <<32>> \o line, current_line \o line}
          IN  /\ AnyTrigger(current_line, line) =>
                    (current_line' \in joined /\ merged_lines' = merged_lines)
              /\ ~AnyTrigger(current_line, line) =>
                    /\ merged_lines' = Append(merged_lines, current_line)
                    /\ current_line' = line
              /\ EndsInPreposition(current_line) => current_line' \in joined
      ]_vars

\* C6, witness: the lines "Contact us at" and "info@example.com for details."
\* of one page were joined into one logical line.
C6_Witness ==
    /\ pc = "merge" /\ i = 3
    /\ lines = <<ContactUsAt, InfoForDetails>>
    /\ merged_lines = <<>>
    /\ current_line = ContactUsAt \o <<32>> \o InfoForDetails

\* C9: a document whose only line is INTRODUCTION, CONCLUSION, SUMMARY,
\* ABSTRACT or REFERENCES, on page 0, gives that line as a heading candidate
\* of level 1, on page 0, with a confidence of 0.8 or more.
C9_CanonicalNameIsLevelOne ==
    (/\ pc \in {"headings", "done"}
     /\ pdf.readable /\ Len(pdf.pages) = 1 /\ ~pdf.pages[1].raises
     /\ pdf.pages[1].text \in {Introduction, Conclusion, Summary, Abstract, References})
        => /\ Len(candidates) = 1
           /\ candidates[1].title = pdf.pages[1].text
           /\ candidates[1].level = 1
           /\ candidates[1].page = 0
           /\ candidates[1].confidence >= 80
           /\ outline = <<[title |-> pdf.pages[1].text, level |-> 1, page |-> 0]>>

\* C9, witness: the heading of the document whose only line is INTRODUCTION.
C9_Witness ==
    /\ pc = "headings"
    /\ pdf = [readable |-> TRUE, pages |-> <<GoodPage(Introduction)>>]
    /\ candidates = <<[title |-> Introduction, level |-> 1, page |-> 0,
                       confidence |-> 100, original_text |-> Introduction]>>

(***************************************************************************)
(* process_pdfs: a batch of files                                          *)
(***************************************************************************)
\* the largest number of files of a batch
MaxFiles == 2

\* Error processing
ErrorProcessing ==
    <<69, 114, 114, 111, 114, 32, 112, 114, 111, 99, 101, 115, 115, 105, 110, 103, 32>>

\* Error
ErrorMarker == <<69, 114, 114, 111, 114>>

\* a.pdf, b.pdf, ...: the name of the k-th file of the batch
FileName(k) == <<96 + k, 46, 112, 100, 102>>

\* lines 824-827
ErrorSummary(name) ==
    [keys |-> {"title", "outline"}, title |-> ErrorProcessing \o name, outline |-> <<>>]

BatchDocuments ==
    {Unreadable,
     [readable |-> TRUE, pages |-> <<>>],
     [readable |-> TRUE, pages |-> <<GoodPage(Introduction)>>],
     [readable |-> TRUE, pages |-> <<GoodPage(ContactUsAt), RaisingPage>>]}

\* A file of the input directory: raises tells whether a statement of the try
\* block of lines 811-820 raises an Exception for it before its summary is
\* written, writable whether its output file can be opened for writing.
BatchFiles == [doc : BatchDocuments, raises : BOOLEAN, writable : BOOLEAN]

InitBatch ==
    /\ pdf_files \in UNION {[1..n -> BatchFiles] : n \in 0..MaxFiles}
    /\ file_idx = 0
    /\ output = <<>>
    /\ pc = "batch"
    /\ pdf = Unreadable
    /\ IdleExtraction /\ IdleSummary /\ IdleThresholds /\ IdleClassifier

\* lines 803-805
NoFiles ==
    /\ pc = "batch" /\ pdf_files = <<>>
    /\ pc' = "finished"
    /\ UNCHANGED <<pdf, extraction_vars, summary_vars, batch_vars, threshold_vars,
                   classifier_vars>>

\* lines 809-812: process_single_pdf is called on the next file
ProcessFile ==
    /\ pc = "batch" /\ file_idx < Len(pdf_files)
    /\ pdf' = pdf_files[file_idx + 1].doc
    /\ pc' = "open"
    /\ page_num' = 0 /\ lines' = <<>> /\ i' = 0
    /\ merged_lines' = <<>> /\ current_line' = <<>> /\ pages_data' = <<>>
    /\ calls' = {} /\ title' = <<>> /\ candidates' = <<>> /\ outline' = <<>>
    /\ result' = NoSummary
    /\ thresholds' = NoThresholds
    /\ UNCHANGED <<batch_vars, font_sizes, classifier_vars>>

\* lines 814-820: the summary process_single_pdf returned is written
WriteSummary ==
    /\ pc = "done" /\ file_idx < Len(pdf_files)
    /\ LET f == pdf_files[file_idx + 1] IN ~f.raises /\ f.writable
    /\ output' = (file_idx + 1 :> result) @@ output
    /\ file_idx' = file_idx + 1
    /\ pc' = "batch"
    /\ UNCHANGED <<pdf, extraction_vars, summary_vars, pdf_files, threshold_vars,
                   classifier_vars>>

\* lines 811-822: a statement of the try block raises
TryRaises ==
    /\ pc = "done" /\ file_idx < Len(pdf_files)
    /\ LET f == pdf_files[file_idx + 1] IN f.raises \/ ~f.writable
    /\ pc' = "except"
    /\ UNCHANGED <<pdf, extraction_vars, summary_vars, batch_vars, threshold_vars,
                   classifier_vars>>

\* lines 823-832: the handler writes the error summary
HandlerWrites ==
    /\ pc = "except"
    /\ pdf_files[file_idx + 1].writable
    /\ output' = (file_idx + 1 :> ErrorSummary(FileName(file_idx + 1))) @@ output
    /\ file_idx' = file_idx + 1
    /\ pc' = "batch"
    /\ UNCHANGED <<pdf, extraction_vars, summary_vars, pdf_files, threshold_vars,
                   classifier_vars>>

\* lines 830-832: the open of the handler raises, nothing catches it, and
\* process_pdfs ends with the files after this one not attempted
HandlerRaises ==
    /\ pc = "except"
    /\ ~pdf_files[file_idx + 1].writable
    /\ pc' = "aborted"
    /\ UNCHANGED <<pdf, extraction_vars, summary_vars, batch_vars, threshold_vars,
                   classifier_vars>>

\* line 809: the loop ends
BatchDone ==
    /\ pc = "batch" /\ pdf_files # <<>> /\ file_idx = Len(pdf_files)
    /\ pc' = "finished"
    /\ UNCHANGED <<pdf, extraction_vars, summary_vars, batch_vars, threshold_vars,
                   classifier_vars>>

\* process_pdfs, with the steps of process_single_pdf for each of its files
NextBatch ==
    \/ NoFiles \/ ProcessFile \/ WriteSummary \/ TryRaises \/ HandlerWrites
    \/ HandlerRaises \/ BatchDone
    \/ Open \/ OpenRaises \/ ExtractPage \/ ExtractPageRaises \/ MergeStep
    \/ FinishPage \/ ExtractionDone \/ ReturnSentinel \/ ExtractTitle
    \/ DetectHeadings \/ BuildResult

SpecBatch == InitBatch /\ [][NextBatch]_vars

\* the file failed: its source, its processing or the writing of its summary
FileFailed(f) == SourceFails(f.doc) \/ f.raises \/ ~f.writable

\* C4: when process_pdfs has ended, every file of the batch has an output
\* summary, whatever failed for any file, and the summary of a file that
\* failed has a title that begins with Error and an empty outline.
C4_EveryFileGetsASummary ==
    pc \in {"finished", "aborted"} =>
        \A k \in 1..Len(pdf_files) :
            /\ k \in DOMAIN output
            /\ FileFailed(pdf_files[k]) =>
                  /\ startswith(output[k].title, ErrorMarker)
                  /\ output[k].outline = <<>>

(***************************************************************************)
(* filter_and_rank_headings_improved on lists of candidates                *)
(***************************************************************************)
\* the largest number of candidates with keys of their own in a list
MaxGenerated == 27

\* the largest number of further candidates at the end of a list
MaxTail == 2

\* H01, H02, ...: a title for each number below 100
NumberedTitle(k) == <<72, 48 + (k \div 10), 48 + (k % 10)>>

\* h01: the title of GeneratedCandidate(1, high) in lower case
LowerCaseTitle == <<104, 48, 49>>

\* the k-th of the candidates with keys of their own; the first `high` of
\* them have confidence 0.8 and the others 0.6
GeneratedCandidate(k, high) ==
    [title |-> NumberedTitle(k),
     level |-> 1 + (k % 3),
     page |-> k % 3,
     confidence |-> IF k <= high THEN 80 ELSE 60,
     original_text |-> NumberedTitle(k)]

\* candidates that share their key, or all of it but the case of a letter,
\* with GeneratedCandidate(1, high)
TailCandidates ==
    {[title |-> t, level |-> l, page |-> 1, confidence |-> c, original_text |-> t] :
        t \in {NumberedTitle(1), LowerCaseTitle}, l \in {1, 3}, c \in {50, 90}}

\* the lists of candidates: candidates with keys of their own, then a tail
InitReduce ==
    /\ \E n \in 0..MaxGenerated :
       \E high \in {0, MinHighConfidence - 1, MinHighConfidence} :
       \E m \in 0..MaxTail :
       \E tail \in [1..m -> TailCandidates] :
          candidates = [k \in 1..n |-> GeneratedCandidate(k, high)] \o tail
    /\ pc = "reduce"
    /\ pdf = Unreadable /\ calls = {} /\ title = <<>> /\ outline = <<>>
    /\ result = NoSummary
    /\ IdleExtraction /\ IdleBatch /\ IdleThresholds /\ IdleClassifier

\* lines 588-621
Reduce ==
    /\ pc = "reduce"
    /\ outline' = filter_and_rank_headings_improved(candidates)
    /\ pc' = "reduced"
    /\ UNCHANGED <<pdf, extraction_vars, calls, title, candidates, result,
                   batch_vars, threshold_vars, classifier_vars>>

NextReduce == Reduce

SpecReduce == InitReduce /\ [][NextReduce]_vars

\* the keys of the dict `seen` of line 594 for the candidates
CandidateKeys == {<<candidates[k].title, candidates[k].page>> : k \in 1..Len(candidates)}

\* the entries of the outline with the title and the page of item
EntriesOf(item) ==
    {e \in 1..Len(outline) : outline[e].title = item.title /\ outline[e].page = item.page}

\* the entries of the outline with the lowercased title and the page of item
EntriesOfLowercased(item) ==
    {e \in 1..Len(outline) :
        lower(outline[e].title) = lower(item.title) /\ outline[e].page = item.page}

\* the first of the candidates that have the greatest confidence among those
\* that satisfy Same(_, candidates[j])
Winner(Same(_, _), j) ==
    LET group == {k \in 1..Len(candidates) : Same(candidates[k], candidates[j])}
        best == {k \in group :
                    \A m \in group : candidates[m].confidence <= candidates[k].confidence}
    IN  candidates[CHOOSE k \in best : \A m \in best : k <= m]

SameLowercasedKey(a, b) == lower(a.title) = lower(b.title) /\ a.page = b.page

\* C1: the outline that filter_and_rank_headings_improved returns has at most
\* 25 entries, whatever the list of candidates.
C1_OutlineBound == pc = "reduced" => Len(outline) <= OutlineLimit

\* C1, witness: more than 25 candidates with keys of their own were reduced
\* to an outline of exactly 25 entries.
C1_Witness ==
    /\ pc = "reduced"
    /\ Cardinality(CandidateKeys) > OutlineLimit
    /\ Len(outline) = OutlineLimit

\* C2 as stated: two candidates with the same lowercased title and page and
\* different confidences give exactly one entry of the outline, the one built
\* from the candidate of higher confidence, also when the titles differ in
\* letter case only.
C2_OneEntryPerLowercasedKey ==
    pc = "reduced" =>
        \A j, k \in 1..Len(candidates) :
            /\ j < k
            /\ SameLowercasedKey(candidates[j], candidates[k])
            /\ candidates[j].confidence # candidates[k].confidence
            => \E e \in 1..Len(outline) :
                  /\ EntriesOfLowercased(candidates[j]) = {e}
                  /\ outline[e] = OutlineEntry(Winner(SameLowercasedKey, j))

\* C2 as amended: two candidates with the same title, letter for letter, and
\* the same page, and different confidences, give at most one entry of the
\* outline with that title and page; when the candidates have no more than 25
\* distinct keys they give exactly one, built from the candidate of highest
\* confidence with that key.  Titles that differ in letter case are different
\* keys, and each has an entry of its own.
C2_OneEntryPerKey ==
    pc = "reduced" =>
        /\ \A j, k \in 1..Len(candidates) :
              /\ j < k
              /\ SameKey(candidates[j], candidates[k])
              /\ candidates[j].confidence # candidates[k].confidence
              => /\ Cardinality(EntriesOf(candidates[j])) <= 1
                 /\ Cardinality(CandidateKeys) <= OutlineLimit
                       => \E e \in 1..Len(outline) :
                             /\ EntriesOf(candidates[j]) = {e}
                             /\ outline[e] = OutlineEntry(Winner(SameKey, j))
        /\ Cardinality(CandidateKeys) <= OutlineLimit
              => \A j \in 1..Len(candidates) : EntriesOf(candidates[j]) # {}

\* C2, witness: the later of two candidates with one key has the higher
\* confidence and another level, and the one entry of the key is built from it,
\* next to an entry for a title that differs from it in letter case only.
C2_Witness ==
    /\ pc = "reduced"
    /\ \E j, k \in 1..Len(candidates), e \in 1..Len(outline) :
          /\ j < k
          /\ SameKey(candidates[j], candidates[k])
          /\ candidates[j].confidence < candidates[k].confidence
          /\ candidates[j].level # candidates[k].level
          /\ EntriesOf(candidates[j]) = {e}
          /\ outline[e] = OutlineEntry(candidates[k])
          /\ Cardinality(EntriesOfLowercased(candidates[j])) = 2

(***************************************************************************)
(* calculate_dynamic_font_thresholds on lists of emphasis scores           *)
(***************************************************************************)
\* the largest number of emphasis scores in a list
MaxSizes == 3

\* the emphasis scores estimate_font_size_improved can return (lines 300-301)
EmphasisScores == 8..18

InitThresholds ==
    /\ \E n \in 0..MaxSizes : font_sizes \in [1..n -> EmphasisScores]
    /\ thresholds = NoThresholds
    /\ pc = "thresholds"
    /\ pdf = Unreadable
    /\ IdleExtraction /\ IdleSummary /\ IdleBatch /\ IdleClassifier

\* lines 377-400
CalculateThresholds ==
    /\ pc = "thresholds"
    /\ thresholds' = calculate_dynamic_font_thresholds(font_sizes)
    /\ pc' = "thresholds_set"
    /\ UNCHANGED <<pdf, extraction_vars, summary_vars, batch_vars, font_sizes,
                   classifier_vars>>

NextThresholds == CalculateThresholds

SpecThresholds == InitThresholds /\ [][NextThresholds]_vars

\* C7: for every non-empty list of emphasis scores the thresholds that
\* calculate_dynamic_font_thresholds returns satisfy H1 >= H2 >= H3.
C7_ThresholdsDescend ==
    (pc = "thresholds_set" /\ font_sizes # <<>>) =>
        thresholds.H1 >= thresholds.H2 /\ thresholds.H2 >= thresholds.H3

\* C7, witness: three different scores, given in increasing order, became
\* the thresholds in decreasing order.
C7_Witness ==
    /\ pc = "thresholds_set"
    /\ Len(font_sizes) = 3
    /\ font_sizes[1] < font_sizes[2] /\ font_sizes[2] < font_sizes[3]
    /\ thresholds = [H1 |-> font_sizes[3], H2 |-> font_sizes[2], H3 |-> font_sizes[1]]

(***************************************************************************)
(* extract_title on lists of pages                                         *)
(***************************************************************************)
\* the largest number of skipped lines at the top of the first page
MaxSkipped == 10

\* the largest number of lines after them
MaxTitleTail == 2

\* lines that line 321 skips: ab, the, Page, OF, " and "
SkippedLines ==
    << <<97, 98>>, <<116, 104, 101>>, <<80, 97, 103, 101>>, <<79, 70>>,
       <<32, 97, 110, 100, 32>> >>

\* My Title
MyTitle == <<77, 121, 32, 84, 105, 116, 108, 101>>

\* the k-th skipped line of a page, whose first is number shift + 1 of SkippedLines
SkippedElement(k, shift) ==
    [text |-> SkippedLines[((k + shift) % Len(SkippedLines)) + 1],
     font_size |-> 8 + ((k + shift) % 11)]

TitleTailElements ==
    {[text |-> t, font_size |-> f] :
        t \in {MyTitle, Introduction, <<116, 104, 101>>, <<97, 98>>}, f \in {12, 16}}

InitTitle ==
    /\ \/ pages_data = <<>>
       \/ \E n \in 0..MaxSkipped, shift \in 0..(Len(SkippedLines) - 1),
             m \in 0..MaxTitleTail, more \in BOOLEAN :
          \E tail \in [1..m -> TitleTailElements] :
             pages_data =
                <<[page_num |-> 0,
                   text_elements |-> [k \in 1..n |-> SkippedElement(k, shift)] \o tail]>>
                \o (IF more
                    THEN <<[page_num |-> 1,
                            text_elements |-> <<[text |-> MyTitle, font_size |-> 18]>>]>>
                    ELSE <<>>)
    /\ pc = "extracted"
    /\ pdf = Unreadable
    /\ page_num = 0 /\ lines = <<>> /\ i = 0
    /\ merged_lines = <<>> /\ current_line = <<>>
    /\ IdleSummary /\ IdleBatch /\ IdleThresholds /\ IdleClassifier

\* lines 307-333: extract_title on any list of pages, the empty one included
ExtractTitleOfPages ==
    /\ pc = "extracted"
    /\ title' = extract_title(pages_data)
    /\ calls' = calls \cup {"extract_title"}
    /\ pc' = "title"
    /\ UNCHANGED <<pdf, extraction_vars, candidates, outline, result, batch_vars,
                   threshold_vars, classifier_vars>>

NextTitle == ExtractTitleOfPages

SpecTitle == InitTitle /\ [][NextTitle]_vars

\* line 321 skips the text: shorter than 3 characters, or a stop word
IsSkipped(t) ==
    LET stripped == strip(t)
    IN  Len(stripped) < 3 \/ lower(stripped) \in StopWords

\* C8: extract_title returns "Untitled Document" when there is no page, and
\* when every one of the first ten lines of the first page is skipped.
C8_UntitledFallback ==
    pc = "title" =>
        /\ pages_data = <<>> => title = UntitledDocument
        /\ (/\ pages_data # <<>>
            /\ \A k \in 1..Len(pages_data[1].text_elements) :
                  k <= TitleScanLimit => IsSkipped(pages_data[1].text_elements[k].text))
              => title = UntitledDocument

\* C8, witness: the first ten lines of the first page are skipped and the
\* eleventh is a line that would do for a title; the title is the placeholder.
C8_Witness ==
    /\ pc = "title"
    /\ pages_data # <<>>
    /\ Len(pages_data[1].text_elements) > TitleScanLimit
    /\ ~IsSkipped(pages_data[1].text_elements[TitleScanLimit + 1].text)
    /\ title = UntitledDocument

(***************************************************************************)
(* The classifier on one line: level, cleaned title and confidence         *)
(***************************************************************************)
\* how far over the longest cleaned title the longest line of the model goes
MaxOver == 1

\* 1.2.3 Detailed Analysis
DetailedAnalysis ==
    <<49, 46, 50, 46, 51, 32, 68, 101, 116, 97, 105, 108, 101, 100, 32, 65, 110,
      97, 108, 121, 115, 105, 115>>

\* 1.2.3, 10.20.33, 1.2.3 in fullwidth digits, 1.2, 1.2.3. and 1.
LeadingNumbers ==
    { <<49, 46, 50, 46, 51>>, <<49, 48, 46, 50, 48, 46, 51, 51>>,
      <<65297, 46, 65298, 46, 65299>>, <<49, 46, 50>>,
      <<49, 46, 50, 46, 51, 46>>, <<49, 46>> }

\* a space, two spaces, a tab, an ideographic space
Gaps == { <<32>>, <<32, 32>>, <<9>>, <<12288>> }

\* A followed by n times a: a capitalized word of n + 1 letters
LongWord(n) == <<65>> \o [k \in 1..n |-> 97]

\* Detailed Analysis, Analysis:, analysis, Analysis with a fullwidth A, and
\* capitalized words that bring a line with the number 1.2.3 and one space
\* to the longest cleaned title, and over it
HeadingBodies ==
    { SubSeq(DetailedAnalysis, 7, Len(DetailedAnalysis)),
      <<65, 110, 97, 108, 121, 115, 105, 115, 58>>,
      <<97, 110, 97, 108, 121, 115, 105, 115>>,
      <<65313, 110, 97, 108, 121, 115, 105, 115>> }
    \cup {LongWord(n) : n \in (MaxTitleLen - 8)..(MaxTitleLen - 7 + MaxOver)}

\* thresholds of documents with one, two and many emphasis scores, and the
\* thresholds of a document without any
ThresholdChoices ==
    { calculate_dynamic_font_thresholds(<<>>),
      calculate_dynamic_font_thresholds(<<18>>),
      calculate_dynamic_font_thresholds(<<13, 12>>),
      calculate_dynamic_font_thresholds(<<18, 15, 12, 9>>) }

InitClassify ==
    /\ \/ \E number \in LeadingNumbers, gap \in Gaps, body \in HeadingBodies :
             text = number \o gap \o body
       \/ text \in {Introduction, MyTitle, ContactUsAt, JapaneseLine}
    /\ font_size \in EmphasisScores
    /\ thresholds \in ThresholdChoices
    /\ level = 0 /\ clean_text = <<>> /\ confidence = 0
    /\ pc = "classify"
    /\ pdf = Unreadable /\ font_sizes = <<>>
    /\ IdleExtraction /\ IdleSummary /\ IdleBatch

\* lines 352-366 of detect_headings for one line
Classify ==
    /\ pc = "classify"
    /\ level' = classify_heading_improved(text, font_size, thresholds)
    /\ clean_text' = clean_heading_text_improved(text)
    /\ confidence' = calculate_heading_confidence(text, font_size, thresholds)
    /\ pc' = "classified"
    /\ UNCHANGED <<pdf, extraction_vars, summary_vars, batch_vars, threshold_vars,
                   text, font_size>>

NextClassify == Classify

SpecClassify == InitClassify /\ [][NextClassify]_vars

\* the position after the numbering N.N.N at the start of s, 0 if s does not
\* start with one
SubSubNumberEnd(s) == DotDigitsEnd(s, DotDigitsEnd(s, DigitsEnd(s, 1)))

\* s starts with a numbering N.N.N, whitespace and a capital letter
IsSubSubNumberedHeading(s) ==
    LET IsCapital(c) == IsAsciiUpper(c) \/ IsFullUpper(c)
    IN  SubSubNumberEnd(s) # 0 /\ SpacesThen(IsCapital, s, SubSubNumberEnd(s))

\* the numbering N.N.N of such a line, digits in their ASCII form
LeadingNumber(s) == NFKC(SubSeq(s, 1, SubSubNumberEnd(s) - 1))

\* C10 as stated: every line that starts with N.N.N, whitespace and a
\* capitalized word is classified level 3 whatever its emphasis score and the
\* thresholds, and its cleaned title keeps the number.
C10_SubSubNumberedKeepsNumber ==
    (pc = "classified" /\ IsSubSubNumberedHeading(text)) =>
        /\ level = 3
        /\ startswith(clean_text, LeadingNumber(text))

\* C10 as amended: every such line is classified level 3 whatever its
\* emphasis score and the thresholds; its cleaned title keeps the number when
\* the cleaned text is no longer than 200 characters, and is empty when it is
\* longer.
C10_SubSubNumberedLevelThree ==
    (pc = "classified" /\ IsSubSubNumberedHeading(text)) =>
        /\ level = 3
        /\ IF Len(CleanedText(text)) <= MaxTitleLen
           THEN /\ startswith(clean_text, LeadingNumber(text))
                /\ Len(clean_text) > Len(LeadingNumber(text))
           ELSE clean_text = <<>>

\* C10, witness: "1.2.3 Detailed Analysis" with an emphasis score that
\* reaches H1 is of level 3 and is its own cleaned title.
C10_Witness ==
    /\ pc = "classified"
    /\ text = DetailedAnalysis
    /\ font_size >= thresholds.H1
    /\ level = 3
    /\ clean_text = DetailedAnalysis

(***************************************************************************)
(* One processor instance on several documents, one after the other        *)
(***************************************************************************)
\* the largest number of documents the instance processes
MaxCalls == 3

\* a document whose only line is a heading through its emphasis score alone,
\* a document with a line of the highest emphasis score, and a document that
\* has both a line that is a heading and a line that is not
RepeatDocuments ==
    {[readable |-> TRUE, pages |-> <<GoodPage(InfoForDetails)>>],
     [readable |-> TRUE, pages |-> <<GoodPage(Introduction)>>],
     [readable |-> TRUE, pages |-> <<GoodPage(DearSir), GoodPage(InfoForDetails)>>]}

\* lines 788-807: one PDFProcessor for all the files, which can be read
\* and written
InitRepeat ==
    /\ \E n \in 0..MaxCalls :
          pdf_files \in [1..n -> [doc : RepeatDocuments, raises : {FALSE},
                                  writable : {TRUE}]]
    /\ file_idx = 0
    /\ output = <<>>
    /\ pc = "batch"
    /\ pdf = Unreadable
    /\ IdleExtraction /\ IdleSummary /\ IdleThresholds /\ IdleClassifier

\* process_pdfs on files that do not fail
NextRepeat ==
    \/ NoFiles \/ ProcessFile \/ WriteSummary \/ BatchDone
    \/ Open \/ ExtractPage \/ MergeStep \/ FinishPage \/ ExtractionDone
    \/ ExtractTitle \/ DetectHeadings \/ BuildResult

SpecRepeat == InitRepeat /\ [][NextRepeat]_vars

\* C11: detect_headings keeps no hidden state.  The outlines of two files
\* with the same document are the same, whatever was processed before and
\* between them; the outline of a call is the one detect_headings gives for
\* its argument alone; and the call leaves the pages data as they were.
C11_DetectHeadingsKeepsNoState ==
    /\ [](\A j, k \in DOMAIN output :
            pdf_files[j].doc = pdf_files[k].doc
                => output[j].outline = output[k].outline)
    /\ [](pc = "headings" => outline = detect_headings(pages_data))
    /\ [][pc = "title" => pages_data' = pages_data]_vars

\* C11, witness: the document with the line "info@example.com for details."
\* was processed, then the document INTRODUCTION, then the first one again,
\* and its line, less the full stop, is a heading of level 1 both times.
C11_Witness ==
    /\ pc = "batch" /\ file_idx = 3
    /\ pdf_files[1].doc = [readable |-> TRUE, pages |-> <<GoodPage(InfoForDetails)>>]
    /\ pdf_files[2].doc = [readable |-> TRUE, pages |-> <<GoodPage(Introduction)>>]
    /\ pdf_files[3].doc = pdf_files[1].doc
    /\ output[1].outline =
          <<[title |-> SubSeq(InfoForDetails, 1, Len(InfoForDetails) - 1),
             level |-> 1, page |-> 0]>>
    /\ output[3].outline = output[1].outline

(***************************************************************************)
(* The reducer's result, stated without its algorithm (SpecReduce)         *)
(***************************************************************************)
\* D as a set: for each key the first candidate of greatest confidence
DeduplicatedSet == {Winner(SameKey, j) : j \in 1..Len(candidates)}

\* S as a set: the entries of d with confidence > 0.7 when d has more than 25
\* entries and at least 10 of them have confidence > 0.7, and d otherwise
SelectedSet(d) ==
    LET high == {c \in d : c.confidence > 70}
    IN  IF Cardinality(d) > 25 /\ Cardinality(high) >= 10 THEN high ELSE d

\* a comes no later than b in the order page ascending, confidence descending
NoLaterThan(a, b) ==
    a.page < b.page \/ (a.page = b.page /\ a.confidence >= b.confidence)

\* the member of s with the title and the page of an entry of the outline
SourceIn(s, entry) ==
    CHOOSE c \in s : c.title = entry.title /\ c.page = entry.page

\* out is the (title, level, page) projection of the first 25 members of s in
\* the order page ascending, confidence descending
IsFirstOfSorted(out, s) ==
    /\ Len(out) = (IF Cardinality(s) < 25 THEN Cardinality(s) ELSE 25)
    /\ \A e \in 1..Len(out) :
          \E c \in s : out[e] = [title |-> c.title, level |-> c.level, page |-> c.page]
    /\ \A e, f \in 1..Len(out) :
          e < f => /\ ~(out[e].title = out[f].title /\ out[e].page = out[f].page)
                   /\ NoLaterThan(SourceIn(s, out[e]), SourceIn(s, out[f]))
    /\ \A c \in s :
          (\A e \in 1..Len(out) : ~(out[e].title = c.title /\ out[e].page = c.page))
              => \A e \in 1..Len(out) : NoLaterThan(SourceIn(s, out[e]), c)

\* C12: the reducer's result is the (title, level, page) projection of the
\* first 25 entries of S, where D is the deduplicated candidates sorted by
\* page ascending then confidence descending and S is the entries of D with
\* confidence > 0.7 when D has more than 25 entries and at least 10 of them
\* have confidence > 0.7, and D otherwise; the result has non-decreasing pages.
C12_ReducerResult ==
    pc = "reduced" =>
        /\ IsFirstOfSorted(outline, SelectedSet(DeduplicatedSet))
        /\ \A e, f \in 1..Len(outline) : e < f => outline[e].page <= outline[f].page

\* C12, witness: of more than 25 deduplicated candidates exactly 10 have a
\* confidence over 0.7, and the outline is made of these 10, some of page 0
\* and some of page 2.
C12_Witness ==
    /\ pc = "reduced"
    /\ Cardinality(CandidateKeys) > 25
    /\ Len(outline) = 10
    /\ \A e \in 1..Len(outline) :
          \E k \in 1..Len(candidates) :
              /\ outline[e] = OutlineEntry(candidates[k])
              /\ candidates[k].confidence > 70
    /\ outline[1].page = 0 /\ outline[Len(outline)].page = 2

(***************************************************************************)
(* The title, stated without the loop of extract_title (SpecTitle)         *)
(***************************************************************************)
\* the first 10 lines of the first page
ExaminedLines ==
    IF pages_data = <<>> THEN <<>>
    ELSE SubSeq(pages_data[1].text_elements, 1,
                IF Len(pages_data[1].text_elements) < 10
                THEN Len(pages_data[1].text_elements) ELSE 10)

\* the examined lines that are not skipped
NonSkippedLines == {k \in 1..Len(ExaminedLines) : ~IsSkipped(ExaminedLines[k].text)}

\* the candidates: the first line that is not skipped, and every line that
\* is not skipped and has an emphasis score of 16 or more
TitleChoices ==
    {k \in NonSkippedLines :
        ExaminedLines[k].font_size >= 16 \/ \A j \in NonSkippedLines : k <= j}

\* C13: extract_title looks at the first 10 lines of the first page only,
\* skips the lines of less than 3 characters and the lines that are page, of,
\* the or and in any letter case, takes a line that is not skipped as a
\* candidate when its emphasis score is 16 or more or when there is no
\* candidate yet, and returns the candidate of highest emphasis score, the
\* earliest of them when several have it.
C13_TitleIsBestCandidate ==
    (pc = "title" /\ NonSkippedLines # {}) =>
        \E k \in TitleChoices :
            /\ title = strip(ExaminedLines[k].text)
            /\ \A j \in TitleChoices :
                  \/ ExaminedLines[j].font_size < ExaminedLines[k].font_size
                  \/ (ExaminedLines[j].font_size = ExaminedLines[k].font_size /\ k <= j)

\* C13, witness: after skipped lines, two lines with different texts and the
\* emphasis score 16 are candidates, and the title is the earlier of the two.
C13_Witness ==
    /\ pc = "title"
    /\ \E j, k \in TitleChoices :
          /\ 1 < j /\ j < k
          /\ ExaminedLines[j].font_size = 16 /\ ExaminedLines[k].font_size = 16
          /\ ExaminedLines[j].text # ExaminedLines[k].text
          /\ title = ExaminedLines[j].text

(***************************************************************************)
(* The priority of the three classifiers (SpecClassify)                    *)
(***************************************************************************)
\* C14: the level of a line is the level of the pattern classifier when it
\* gives one, otherwise the level of the size classifier when it gives one,
\* otherwise the level of the content classifier, which may be none; the
\* levels are not combined, and a classifier of lower priority does not
\* change the level of one of higher priority.
C14_StrictPriority ==
    pc = "classified" =>
        LET pattern_level == classify_heading_by_pattern_improved(text)
            size_level == font_level(font_size, thresholds)
            content_level == classify_heading_by_content(text)
        IN  /\ pattern_level # 0 => level = pattern_level
            /\ (pattern_level = 0 /\ size_level # 0) => level = size_level
            /\ (pattern_level = 0 /\ size_level = 0) => level = content_level

\* C14, witness: for "1.2.3 Detailed Analysis" with an emphasis score that
\* reaches H1 the pattern classifier says 3, the size classifier 1 and the
\* content classifier 2, and the level is 3.
C14_Witness ==
    /\ pc = "classified"
    /\ text = DetailedAnalysis
    /\ classify_heading_by_pattern_improved(text) = 3
    /\ font_level(font_size, thresholds) = 1
    /\ classify_heading_by_content(text) = 2
    /\ level = 3

(***************************************************************************)
(* The thresholds, stated without the sort (SpecThresholds)                *)
(***************************************************************************)
\* the distinct emphasis scores of the list
DistinctScores == {font_sizes[k] : k \in 1..Len(font_sizes)}

\* the largest score of a non-empty set
Largest(S) == CHOOSE x \in S : \A y \in S : y <= x

\* C15 as stated: H1 is the largest distinct score, H2 the second-largest distinct
\* score, or H1 - 1 when there is no second distinct score, H3 the
\* third-largest distinct score, or H2 - 1 when there is no third distinct
\* score; without any score the thresholds are H1 = 14, H2 = 12, H3 = 11.
C15_ThresholdsAreLargestScores ==
    pc = "thresholds_set" =>
        IF font_sizes = <<>> THEN thresholds = [H1 |-> 14, H2 |-> 12, H3 |-> 11]
        ELSE LET rest == DistinctScores \ {Largest(DistinctScores)}
             IN  /\ thresholds.H1 = Largest(DistinctScores)
                 /\ thresholds.H2 = (IF rest # {} THEN Largest(rest)
                                     ELSE thresholds.H1 - 1)
                 /\ thresholds.H3 = (IF Cardinality(DistinctScores) >= 3
                                     THEN Largest(rest \ {Largest(rest)})
                                     ELSE thresholds.H2 - 1)

\* C15 as amended: H1 is the largest distinct score; with three distinct
\* scores or more H2 and H3 are the second-largest and the third-largest
\* distinct scores; with one or two distinct scores H2 = H1 - 1 and
\* H3 = H1 - 2, the second distinct score not being used; without any score
\* the thresholds are H1 = 14, H2 = 12, H3 = 11.
C15_ThresholdsOrFallback ==
    pc = "thresholds_set" =>
        IF font_sizes = <<>> THEN thresholds = [H1 |-> 14, H2 |-> 12, H3 |-> 11]
        ELSE LET rest == DistinctScores \ {Largest(DistinctScores)}
             IN  /\ thresholds.H1 = Largest(DistinctScores)
                 /\ IF Cardinality(DistinctScores) >= 3
                    THEN /\ thresholds.H2 = Largest(rest)
                         /\ thresholds.H3 = Largest(rest \ {Largest(rest)})
                    ELSE /\ thresholds.H2 = thresholds.H1 - 1
                         /\ thresholds.H3 = thresholds.H1 - 2

\* C15, witness: the scores 12 and 18, and 18 again, gave the thresholds 18,
\* 17 and 16: the second distinct score, 12, is none of them.
C15_Witness ==
    /\ pc = "thresholds_set"
    /\ font_sizes = <<12, 18, 18>>
    /\ thresholds = [H1 |-> 18, H2 |-> 17, H3 |-> 16]

(***************************************************************************)
(* The validity filter and the merger: documents with lines that the       *)
(* filter rejects                                                          *)
(***************************************************************************)
\* the largest number of lines and page breaks of these documents
MaxFilterTokens == 3

\* "Contact us at", "info@example.com for details.", and four lines that
\* is_valid_text_line rejects, one for each of its tests: "x", "***",
\* "aaaaaaaaaaaa" and "a b c d"
FilterVocab ==
    <<ContactUsAt, InfoForDetails, <<120>>, <<42, 42, 42>>, [k \in 1..12 |-> 97],
      <<97, 32, 98, 32, 99, 32, 100>>>>

\* the pages written by a sequence of tokens: the index of a line of
\* FilterVocab, or 0 for a page break
FilterPagesOf(ts) ==
    LET pages == Split(ts, 0)
    IN  [p \in 1..Len(pages) |->
            GoodPage(JoinLines([k \in 1..Len(pages[p]) |-> FilterVocab[pages[p][k]]]))]

InitFilter ==
    /\ \E n \in 0..MaxFilterTokens : \E ts \in [1..n -> 0..Len(FilterVocab)] :
          pdf = [readable |-> TRUE, pages |-> FilterPagesOf(ts)]
    /\ pc = "open"
    /\ IdleExtraction /\ IdleSummary /\ IdleBatch /\ IdleThresholds /\ IdleClassifier

\* process_single_pdf on documents that can be read
NextFilter ==
    \/ Open \/ ExtractPage \/ MergeStep \/ FinishPage \/ ExtractionDone
    \/ ExtractTitle \/ DetectHeadings \/ BuildResult

SpecFilter == InitFilter /\ [][NextFilter]_vars

\* a rejection condition of the Line Normalizer holds of the line: it has
\* less than 2 characters, or only characters that are neither word
\* characters nor whitespace, or less than 3 distinct characters (spaces
\* apart) and more than 10 characters, or more single-character tokens than
\* half of its tokens
Rejected(line) ==
    \/ Len(line) < 2
    \/ \A k \in 1..Len(line) : ~IsWord(line[k]) /\ ~IsSpace(line[k])
    \/ (Cardinality({line[k] : k \in 1..Len(line)} \ {32}) < 3 /\ Len(line) > 10)
    \/ 2 * SingleCharCount(line) > WordCount(line)

\* C16 as stated: a raw line that meets a rejection condition is filtered
\* before the merging, so every logical line that reaches the Size
\* Synthesizer and the classifier is made of raw lines of its page that meet
\* no rejection condition.
C16_RejectedBeforeMerging ==
    \A p \in 1..Len(pages_data) : \A e \in 1..Len(pages_data[p].text_elements) :
        LET ls == NormalizedLines(p - 1)
            f(k) == ls[k]
        IN  \E a \in 1..Len(ls) : \E b \in a..Len(ls) :
                /\ Squeeze(pages_data[p].text_elements[e].text) = Squeeze(FlatMap(f, a, b))
                /\ \A k \in a..b : ~Rejected(strip(ls[k]))

\* the logical lines of the page when the loop of merge_fragmented_lines ends
LogicalLines ==
    merged_lines \o (IF current_line # <<>> THEN <<current_line>> ELSE <<>>)

\* the texts of the elements of the last page of a list of pages
LastPageTexts(pages) ==
    [e \in 1..Len(pages[Len(pages)].text_elements) |->
        pages[Len(pages)].text_elements[e].text]

\* C16 as amended: the data flow from the Normalizer to the Merger and then
\* to the rejection conditions.  The conditions are tested on the logical
\* lines, after the merging: the lines of a page that reach the Size
\* Synthesizer and the classifier are its logical lines that meet no
\* rejection condition, in their order, and a logical line that meets one is
\* filtered entirely.
C16_RejectedAfterMerging ==
    /\ [](\A p \in 1..Len(pages_data) :
            \A e \in 1..Len(pages_data[p].text_elements) :
                ~Rejected(pages_data[p].text_elements[e].text))
    /\ [][(pc = "merge" /\ i > Len(lines)) =>
            LET Kept(line) == ~Rejected(line)
            IN  /\ Len(pages_data') = Len(pages_data) + 1
                /\ LastPageTexts(pages_data') = SelectSeq(LogicalLines, Kept)
         ]_vars

\* C16, witness: the raw line "x", which meets a rejection condition, was
\* merged with the line "Contact us at" before it, and the logical line
\* "Contact us at x" reached the Size Synthesizer and the classifier.
C16_Witness ==
    /\ pc = "headings"
    /\ Len(pages_data) = 1
    /\ NormalizedLines(0) = <<ContactUsAt, <<120>>>>
    /\ Rejected(NormalizedLines(0)[2])
    /\ LastPageTexts(pages_data) = <<ContactUsAt \o <<32, 120>>>>
    /\ \E c \in 1..Len(candidates) :
          candidates[c].original_text = ContactUsAt \o <<32, 120>>

(***************************************************************************)
(* detect_headings on one text element: the candidate it appends           *)
(***************************************************************************)
\* AB. ABC. ab. Q1: and capitalized words with a full stop whose cleaned
\* titles are as long as the longest cleaned title, and longer
BoundaryTexts ==
    { <<65, 66, 46>>, <<65, 66, 67, 46>>, <<97, 98, 46>>, <<81, 49, 58>> }
    \cup {LongWord(n) \o <<46>> : n \in (MaxTitleLen - 2)..(MaxTitleLen - 1 + MaxOver)}

\* Detailed Analysis, the line 1.2.3 Detailed Analysis without its number
TitleCaseLine == SubSeq(DetailedAnalysis, 7, Len(DetailedAnalysis))

InitElement ==
    /\ text \in BoundaryTexts
                \cup {Introduction, MyTitle, DetailedAnalysis, TitleCaseLine}
    /\ font_size \in EmphasisScores
    /\ thresholds \in ThresholdChoices
    /\ level = 0 /\ clean_text = <<>> /\ confidence = 0
    /\ pc = "element"
    /\ pdf = Unreadable /\ font_sizes = <<>>
    /\ IdleExtraction /\ IdleSummary /\ IdleBatch

\* lines 351-373: one iteration of the loop over the text elements, on an
\* element of page 0
AppendCandidate ==
    /\ pc = "element"
    /\ level' = classify_heading_improved(strip(text), font_size, thresholds)
    /\ clean_text' = clean_heading_text_improved(strip(text))
    /\ confidence' = calculate_heading_confidence(strip(text), font_size, thresholds)
    /\ candidates' = candidates \o ElementCandidates(
                         [text |-> text, font_size |-> font_size], 0, thresholds)
    /\ pc' = "element_done"
    /\ UNCHANGED <<pdf, extraction_vars, calls, title, outline, result, batch_vars,
                   threshold_vars, text, font_size>>

NextElement == AppendCandidate

SpecElement == InitElement /\ [][NextElement]_vars

\* C17: a line of 3 characters or more that received a heading level is
\* discarded at the cleanup exactly when its cleaned title is shorter than 2
\* or longer than 200 characters; a cleaned title of 2 to 200 characters
\* gives a heading candidate, and the title of every candidate has 2 to 200
\* characters.
C17_DiscardedByLengthOnly ==
    pc = "element_done" =>
        /\ (Len(strip(text)) >= 3 /\ level # 0) =>
              (candidates = <<>> <=>
                  (Len(CleanedText(strip(text))) < 2 \/ Len(CleanedText(strip(text))) > 200))
        /\ \A c \in 1..Len(candidates) :
              Len(candidates[c].title) >= 2 /\ Len(candidates[c].title) <= 200

(***************************************************************************)
(* The patterns for Title-Case lines and for runs of capitals (SpecElement)*)
(***************************************************************************)
\* the words of s, s being made of letters and single spaces: the positions
\* where a word starts
WordStarts(s) == {k \in 1..Len(s) : s[k] # 32 /\ (k = 1 \/ s[k - 1] = 32)}

\* s is a Title-Case multi-word line: two to four words, each an uppercase
\* letter followed by lowercase letters
IsTitleCaseMultiWord(s) ==
    /\ s # <<>> /\ s[1] # 32 /\ s[Len(s)] # 32
    /\ \A k \in 1..Len(s) : IsAsciiLetter(s[k]) \/ s[k] = 32
    /\ \A k \in 1..(Len(s) - 1) : ~(s[k] = 32 /\ s[k + 1] = 32)
    /\ Cardinality(WordStarts(s)) \in 2..4
    /\ \A k \in 1..Len(s) :
          IF k \in WordStarts(s)
          THEN IsAsciiUpper(s[k]) /\ k < Len(s) /\ IsAsciiLower(s[k + 1])
          ELSE s[k] = 32 \/ IsAsciiLower(s[k])

\* s is written in uppercase letters and spaces only
IsUpperCaseOnly(s) == \A k \in 1..Len(s) : IsAsciiUpper(s[k]) \/ IsSpace(s[k])

\* C18: every Title-Case multi-word line, which has no numbering, is not
\* all-uppercase and is no canonical section name, is of level 2 for the
\* pattern classifier, and the level-1 pattern for long runs of capitals
\* matches only lines written in uppercase letters and spaces.
C18_TitleCaseIsLevelTwo ==
    pc = "element_done" =>
        /\ IsTitleCaseMultiWord(text) =>
              (classify_heading_by_pattern_improved(text) = 2 /\ level = 2)
        /\ IsAllCapsRun(text) => IsUpperCaseOnly(text)

(***************************************************************************)
(* Blank lines in merge_fragmented_lines (Spec)                            *)
(***************************************************************************)
\* t is made of the characters of consecutive lines among the first n of ls,
\* none of them blank, in their order, whitespace apart
MadeOfLinesWithoutBlank(t, ls, n) ==
    \E a \in 1..n : \E b \in a..n :
        LET f(k) == ls[k]
        IN  /\ Squeeze(t) = Squeeze(FlatMap(f, a, b))
            /\ \A k \in a..b : strip(ls[k]) # <<>>

\* C19: a blank line flushes the accumulator and is not merged.  A step of
\* merge_fragmented_lines on a blank line emits the accumulator, if it is not
\* empty, and leaves it empty; no logical line, finished or in the making,
\* has text from both sides of a blank line, whatever merge trigger holds
\* between the two; and no logical line is empty.
C19_BlankLineFlushes ==
    /\ [](pc = "merge" =>
            /\ current_line # <<>> =>
                  MadeOfLinesWithoutBlank(current_line, lines, i - 1)
            /\ \A k \in 1..Len(merged_lines) :
                  /\ merged_lines[k] # <<>>
                  /\ MadeOfLinesWithoutBlank(merged_lines[k], lines, i - 1))
    /\ [][(pc = "merge" /\ i <= Len(lines) /\ strip(lines[i]) = <<>>) =>
            /\ current_line' = <<>>
            /\ merged_lines' = (IF current_line # <<>>
                                THEN Append(merged_lines, current_line)
                                ELSE merged_lines)
         ]_vars

\* C19, witness: the lines "Contact us at", a blank line and
\* "info@example.com for details.": the first would be joined with the third
\* if they were adjacent, and they are two logical lines.
C19_Witness ==
    /\ pc = "merge" /\ i = 4
    /\ lines = <<ContactUsAt, <<>>, InfoForDetails>>
    /\ should_merge(ContactUsAt, InfoForDetails)
    /\ merged_lines = <<ContactUsAt>>
    /\ current_line = InfoForDetails

(***************************************************************************)
(* Duplicates in the reduced outline (SpecReduce)                          *)
(***************************************************************************)
\* candidate k has the greatest confidence of the candidates with its title
\* and page, and is the earliest of those that have it
IsEarliestBest(k) ==
    \A m \in 1..Len(candidates) :
        (candidates[m].title = candidates[k].title /\ candidates[m].page = candidates[k].page)
            => \/ candidates[m].confidence < candidates[k].confidence
               \/ (candidates[m].confidence = candidates[k].confidence /\ k <= m)

\* C20: the reduced outline has at most one entry for a title and a page,
\* letter for letter; every entry is the (title, level, page) projection of a
\* candidate, and its level is the level of the candidate of greatest
\* confidence with that title and page, the earliest one when several have
\* that confidence; two duplicates are never both in the outline.
C20_NoDuplicatePairs ==
    pc = "reduced" =>
        /\ \A e, f \in 1..Len(outline) :
              (outline[e].title = outline[f].title /\ outline[e].page = outline[f].page)
                  => e = f
        /\ \A e \in 1..Len(outline) :
              \E k \in 1..Len(candidates) :
                  /\ IsEarliestBest(k)
                  /\ outline[e].title = candidates[k].title
                  /\ outline[e].page = candidates[k].page
                  /\ outline[e].level = candidates[k].level
                  /\ DOMAIN outline[e] = {"title", "level", "page"}

\* C20, witness: two candidates with one title, one page and one confidence,
\* the greatest for that pair, have different levels, and the only entry for
\* the pair has the level of the earlier one.
C20_Witness ==
    /\ pc = "reduced"
    /\ \E j, k \in 1..Len(candidates) :
          /\ j < k
          /\ SameKey(candidates[j], candidates[k])
          /\ candidates[j].confidence = candidates[k].confidence
          /\ candidates[j].level # candidates[k].level
          /\ IsEarliestBest(j)
          /\ \E e \in 1..Len(outline) :
                /\ EntriesOf(candidates[j]) = {e}
                /\ outline[e].level = candidates[j].level

(***************************************************************************)
(* The merger keeps every line, once and in order (Spec)                   *)
(***************************************************************************)
\* the first n lines of ls, stripped, without the blank ones
StrippedNonBlank(ls, n) ==
    LET NotBlank(l) == l # <<>>
    IN  SelectSeq([k \in 1..n |-> strip(ls[k])], NotBlank)

\* the lines run[k..] joined to acc, one after the other, with nothing in
\* between when the text joined so far or the line to join has a Hiragana,
\* Katakana or CJK character, and a space otherwise
RECURSIVE JoinRun(_, _, _)
JoinRun(acc, run, k) ==
    IF k > Len(run) THEN acc
    ELSE JoinRun(acc \o (IF (\E c \in 1..Len(acc) : IsJapaneseChar(acc[c]))
                            \/ (\E c \in 1..Len(run[k]) : IsJapaneseChar(run[k][c]))
                         THEN <<>> ELSE <<32>>) \o run[k],
                 run, k + 1)

\* out is ls cut into consecutive runs, each run joined into one line
RECURSIVE IsRunsOf(_, _)
IsRunsOf(out, ls) ==
    IF out = <<>> THEN ls = <<>>
    ELSE \E n \in 1..Len(ls) :
            /\ JoinRun(ls[1], SubSeq(ls, 1, n), 2) = out[1]
            /\ IsRunsOf(Tail(out), SubSeq(ls, n + 1, Len(ls)))

\* C21: merge_fragmented_lines neither drops, duplicates nor reorders text.
\* After any number of lines of a page, the logical lines, the accumulator
\* included, are the stripped non-blank lines read so far cut into
\* consecutive runs in their order, each logical line being the lines of its
\* run joined by the separator (nothing when the accumulator or the line has
\* a Japanese character, a space otherwise), and no logical line is empty.
C21_MergerPartitionsLines ==
    pc = "merge" =>
        LET out == MergeFinish([merged_lines |-> merged_lines,
                                current_line |-> current_line])
        IN  /\ IsRunsOf(out, StrippedNonBlank(lines, i - 1))
            /\ \A k \in 1..Len(out) : out[k] # <<>>
            /\ i > Len(lines) => out = merge_fragmented_lines(lines)

\* C21, witness: of three lines the first is a logical line of its own, and
\* the second and the third, which is Japanese, are one logical line with
\* nothing between them.
C21_Witness ==
    /\ pc = "merge" /\ i = 4
    /\ lines = <<InfoForDetails, ContactUsAt, JapaneseLine>>
    /\ merged_lines = <<InfoForDetails>>
    /\ current_line = ContactUsAt \o JapaneseLine

(***************************************************************************)
(* The lines of the largest emphasis score (Spec)                          *)
(***************************************************************************)
\* no text element of the document has a larger emphasis score than s
IsTopScore(s) ==
    \A p \in 1..Len(pages_data) :
        \A e \in 1..Len(pages_data[p].text_elements) :
            pages_data[p].text_elements[e].font_size <= s

\* detect_headings has a candidate for the text on the page, with a level
HasLevelledCandidate(t, page) ==
    \E c \in 1..Len(candidates) :
        /\ candidates[c].original_text = t
        /\ candidates[c].page = page
        /\ candidates[c].level \in 1..3

\* the stripped text t of score s on the page meets the H1 threshold and
\* receives a level, level 1 when no pattern gives it one, and is a candidate
\* unless its cleaned title is too short
TopScoreReceivesLevel(t, s, page) ==
    /\ s >= thresholds.H1
    /\ classify_heading_improved(t, s, thresholds) \in 1..3
    /\ classify_heading_by_pattern_improved(t) = 0
          => classify_heading_improved(t, s, thresholds) = 1
    /\ Len(clean_heading_text_improved(t)) > 2 => HasLevelledCandidate(t, page)

\* C22: in detect_headings every text element of at least 3 characters whose
\* emphasis score is the largest of the document meets the H1 threshold and
\* receives a heading level, whatever its text: level 1 when no pattern
\* gives it a level.  It is a candidate of the outline unless its cleaned
\* title is too short.  In a document whose lines share one score this holds
\* of every line of at least 3 characters.
C22_TopScoreReceivesLevel ==
    pc = "headings" =>
        \A p \in 1..Len(pages_data) :
            \A e \in 1..Len(pages_data[p].text_elements) :
                (/\ Len(strip(pages_data[p].text_elements[e].text)) >= 3
                 /\ IsTopScore(pages_data[p].text_elements[e].font_size))
                    => TopScoreReceivesLevel(strip(pages_data[p].text_elements[e].text),
                                             pages_data[p].text_elements[e].font_size,
                                             pages_data[p].page_num)

\* C22, witness: a page has a Japanese line, a blank line and the line
\* "info@example.com for details."; no pattern and no keyword gives either a
\* level.  The Japanese line has the largest score and is a candidate of
\* level 1, the other line has a smaller score and is not a candidate.
C22_Witness ==
    /\ pc = "headings"
    /\ Len(pages_data) = 1
    /\ Len(pages_data[1].text_elements) = 2
    /\ pages_data[1].text_elements[1].text = JapaneseLine
    /\ pages_data[1].text_elements[2].text = InfoForDetails
    /\ classify_heading_by_pattern_improved(JapaneseLine) = 0
    /\ classify_heading_by_content(JapaneseLine) = 0
    /\ pages_data[1].text_elements[2].font_size < pages_data[1].text_elements[1].font_size
    /\ Len(candidates) = 1
    /\ candidates[1].original_text = JapaneseLine
    /\ candidates[1].level = 1

=============================================================================
